---- MODULE Spec2Model ----
(***************************************************************************)
(* Model of the advanced calculator: the bounded History, the Caretaker    *)
(* (memento undo/redo), the CSV persistence of History and the Calculator  *)
(* facade that composes them (src/app/history.py,                          *)
(* src/app/calculator_memento.py, src/app/calculator.py,                   *)
(* src/app/operations.py, src/app/calculation.py).                         *)
(*                                                                         *)
(* A float is modelled by the number it stands for, a rational in lowest   *)
(* terms, or nan; decimal texts are written in hundredths (v / Scale).     *)
(* A str whose case or whitespace matters is the sequence of its           *)
(* characters.                                                             *)
(***************************************************************************)
EXTENDS Integers, Sequences, FiniteSets, TLC

VARIABLES
  items,      \* History._items: sequence of Calculation records, oldest first
  undo,       \* Caretaker._undo: sequence of snapshots, most recent last
  redo,       \* Caretaker._redo: sequence of snapshots, most recent last
  file,       \* the file at cfg.history_file
  autosave,   \* AutoSaveObserver._enabled
  precision,  \* Calculator.precision
  now,        \* the clock read by Calculation.from_values
  lastCmd,    \* name of the facade command that ran last ("init" at start)
  lastErr,    \* class of the exception it raised, "none" if it returned
  lastMsg,    \* the message of that exception
  lastRet,    \* the number it returned (0 when it returns None or raised)
  pre,        \* items, undo and redo as they were before that command
  saving,     \* the save in progress: position in _atomic_write, temporary file
  repl,       \* the loop of main: "none" (no REPL), "running" or "ended"
  registry,   \* command_registry._registry and _alias_to_name
  out,        \* what main printed for the last line
  call        \* a call of a pure function: its arguments and its outcome

vars == <<items, undo, redo, file, autosave, precision, now,
          lastCmd, lastErr, lastMsg, lastRet, pre,
          saving, repl, registry, out, call>>

----------------------------------------------------------------------------
(* Bounds of the model *)

MaxHistory == 2   \* cfg.max_history_size of the session
MaxTime == 3      \* calculate is taken while the clock is below MaxTime
MaxUndo == 2      \* snapshots the Caretaker may hold in the model

Scale == 10 * 10  \* decimal texts are written in hundredths: v stands for v / Scale

----------------------------------------------------------------------------
(* Sequence helpers *)

Front(s) == SubSeq(s, 1, Len(s) - 1)
Last(s) == s[Len(s)]
Range(s) == {s[i] : i \in 1..Len(s)}

----------------------------------------------------------------------------
(* Error messages: kind is the text that identifies the message, cols the  *)
(* column names it lists (only for "missing columns").                     *)

NoMsg == [kind |-> "", cols |-> {}]
Msg(k) == [kind |-> k, cols |-> {}]

----------------------------------------------------------------------------
(* History (src/app/history.py) *)

\* History.add written without the eviction
add_no_evict(its, calc) == Append(its, calc)

\* History.add: append, then drop the oldest when over capacity
add(its, calc) ==
  LET appended == Append(its, calc)
  IN IF Len(appended) > MaxHistory THEN Tail(appended) ELSE appended

\* History.clear
clear(its) == <<>>

\* A HistorySnapshot is its state, the records it shows, and alias: whether
\* that state is the very list object History holds in _items, so that a
\* change made to the list in place shows in the snapshot.

\* History.to_snapshot taken without the oldest record
to_snapshot_drop(its) ==
  [state |-> IF its = <<>> THEN its ELSE Tail(its), alias |-> FALSE]

\* History.to_snapshot that hands out the list itself: HistorySnapshot(self._items)
to_snapshot_shared(its) == [state |-> its, alias |-> TRUE]

\* History.to_snapshot: tuple(self._items) is a new object holding the
\* records of the moment
to_snapshot(its) == [state |-> its, alias |-> FALSE]

\* History.restore: _items becomes list(snapshot.state), a new list holding
\* the records of the snapshot, no trimming
restore(snapshot) == snapshot.state

\* what the snapshots of a stack show once History's list holds its.  add
\* and clear change the list in place (append, pop, clear): a snapshot that
\* is an alias of the list shows its.  restore and load_csv assign a new
\* list to _items: the alias keeps the old list, which nothing changes any
\* more.
seen(stack, its, in_place) ==
  [i \in 1..Len(stack) |->
     IF stack[i].alias
       THEN [state |-> IF in_place THEN its ELSE stack[i].state, alias |-> in_place]
       ELSE stack[i]]

----------------------------------------------------------------------------
(* Caretaker (src/app/calculator_memento.py).  Each operation returns the   *)
(* new stacks; undo and redo also return the snapshot to restore and        *)
(* whether they raised.                                                     *)

\* Caretaker.save that forgets to clear the redo stack
Caretaker_save_keep_redo(u, r, snapshot) ==
  [undo |-> Append(u, snapshot), redo |-> r]

\* Caretaker.save: push on the undo stack, clear the redo stack
Caretaker_save(u, r, snapshot) ==
  [undo |-> Append(u, snapshot), redo |-> <<>>]

\* Caretaker.undo that takes the oldest snapshot instead of the newest
Caretaker_undo_oldest(u, r, current) ==
  IF u = <<>>
    THEN [err |-> "IndexError", msg |-> Msg("Nothing to undo"),
          undo |-> u, redo |-> r, snap |-> current]
    ELSE [err |-> "none", msg |-> NoMsg,
          undo |-> Tail(u), redo |-> Append(r, current), snap |-> Head(u)]

\* Caretaker.undo that pushes the popped snapshot, not the current one
Caretaker_undo_push_prev(u, r, current) ==
  IF u = <<>>
    THEN [err |-> "IndexError", msg |-> Msg("Nothing to undo"),
          undo |-> u, redo |-> r, snap |-> current]
    ELSE [err |-> "none", msg |-> NoMsg,
          undo |-> Front(u), redo |-> Append(r, Last(u)), snap |-> Last(u)]

\* Caretaker.undo: IndexError when empty, else pop undo and push current on redo
Caretaker_undo(u, r, current) ==
  IF u = <<>>
    THEN [err |-> "IndexError", msg |-> Msg("Nothing to undo"),
          undo |-> u, redo |-> r, snap |-> current]
    ELSE [err |-> "none", msg |-> NoMsg,
          undo |-> Front(u), redo |-> Append(r, current), snap |-> Last(u)]

\* Caretaker.clear that empties the undo stack only
Caretaker_clear_undo_only(u, r) == [undo |-> <<>>, redo |-> r]

\* Caretaker.clear: empties both stacks
Caretaker_clear(u, r) == [undo |-> <<>>, redo |-> <<>>]

\* Caretaker.redo that pushes current on the undo stack before its check
Caretaker_redo_push_first(u, r, current) ==
  IF r = <<>>
    THEN [err |-> "IndexError", msg |-> Msg("Nothing to redo"),
          undo |-> Append(u, current), redo |-> r, snap |-> current]
    ELSE [err |-> "none", msg |-> NoMsg,
          undo |-> Append(u, current), redo |-> Front(r), snap |-> Last(r)]

\* Caretaker.redo: IndexError when empty, else pop redo and push current on undo
Caretaker_redo(u, r, current) ==
  IF r = <<>>
    THEN [err |-> "IndexError", msg |-> Msg("Nothing to redo"),
          undo |-> u, redo |-> r, snap |-> current]
    ELSE [err |-> "none", msg |-> NoMsg,
          undo |-> Append(u, current), redo |-> Front(r), snap |-> Last(r)]

----------------------------------------------------------------------------
(* Texts.  A str is the sequence of its characters, so that strip() and     *)
(* lower() are computed character by character; Str joins the characters   *)
(* into the string the dictionaries are keyed by.  A character is written  *)
(* as a one-character string, or as its Python escape when it cannot be    *)
(* printed or written in a string ("\\x0b" is the vertical tab).  The        *)
(* characters of the model are those up to U+00FF, the Unicode spaces and   *)
(* the Greek sigmas.                                                        *)

\* the characters str.strip() removes: those for which str.isspace() holds
Whitespace ==
  {" ", "\t", "\n", "\r", "\f", "\\x0b", "\\x1c", "\\x1d", "\\x1e", "\\x1f", "\\x85",
   "\\xa0", "\\u1680", "\\u2000", "\\u2001", "\\u2002", "\\u2003", "\\u2004",
   "\\u2005", "\\u2006", "\\u2007", "\\u2008", "\\u2009", "\\u200a", "\\u2028",
   "\\u2029", "\\u202f", "\\u205f", "\\u3000"}

\* the lower-case letter of each upper-case letter
LowerTable ==
  LET UpperCase == <<"A", "B", "C", "D", "E", "F", "G", "H", "I", "J", "K", "L", "M",
                     "N", "O", "P", "Q", "R", "S", "T", "U", "V", "W", "X", "Y", "Z",
                     "À", "Á", "Â", "Ã", "Ä", "Å", "Æ", "Ç", "È", "É", "Ê", "Ë", "Ì",
                     "Í", "Î", "Ï", "Ð", "Ñ", "Ò", "Ó", "Ô", "Õ", "Ö", "Ø", "Ù", "Ú",
                     "Û", "Ü", "Ý", "Þ", "Σ">>
      LowerCase == <<"a", "b", "c", "d", "e", "f", "g", "h", "i", "j", "k", "l", "m",
                     "n", "o", "p", "q", "r", "s", "t", "u", "v", "w", "x", "y", "z",
                     "à", "á", "â", "ã", "ä", "å", "æ", "ç", "è", "é", "ê", "ë", "ì",
                     "í", "î", "ï", "ð", "ñ", "ò", "ó", "ô", "õ", "ö", "ø", "ù", "ú",
                     "û", "ü", "ý", "þ", "σ">>
  IN [c \in {UpperCase[i] : i \in 1..Len(UpperCase)} |->
        LowerCase[CHOOSE i \in 1..Len(UpperCase) : UpperCase[i] = c]]

\* str.lower(): every upper-case letter replaced, any other character kept.
\* A capital sigma becomes the final sigma when a cased letter precedes it
\* and none follows it, case-ignorable characters being skipped on both sides.
lower(text) ==
  LET Cased == DOMAIN LowerTable \cup {LowerTable[c] : c \in DOMAIN LowerTable}
                 \cup {"ª", "µ", "º", "ß", "ÿ", "ς"}
      CaseIgnorable == {"'", ".", ":", "^", "\\x60", "¨", "\\xad", "¯", "´", "·", "¸"}
      CasedBefore(i) ==
        \E j \in 1..(i - 1) :
          text[j] \in Cased /\ \A k \in (j + 1)..(i - 1) : text[k] \in CaseIgnorable
      CasedAfter(i) ==
        \E j \in (i + 1)..Len(text) :
          text[j] \in Cased /\ \A k \in (i + 1)..(j - 1) : text[k] \in CaseIgnorable
  IN [i \in 1..Len(text) |->
        IF text[i] = "Σ"
          THEN IF CasedBefore(i) /\ ~CasedAfter(i) THEN "ς" ELSE "σ"
        ELSE IF text[i] \in DOMAIN LowerTable THEN LowerTable[text[i]]
        ELSE text[i]]

RECURSIVE lstrip(_)
lstrip(text) ==
  IF text # <<>> /\ Head(text) \in Whitespace THEN lstrip(Tail(text)) ELSE text

RECURSIVE rstrip(_)
rstrip(text) ==
  IF text # <<>> /\ text[Len(text)] \in Whitespace
    THEN rstrip(SubSeq(text, 1, Len(text) - 1)) ELSE text

\* str.strip()
strip(text) == rstrip(lstrip(text))

\* the string made of the characters of a text
RECURSIVE Str(_)
Str(text) == IF text = <<>> THEN "" ELSE Head(text) \o Str(Tail(text))

----------------------------------------------------------------------------
(* Floats.  A double is modelled by the decimal or rational number it       *)
(* stands for: num/den in lowest terms with den > 0 (class "finite"), nan,  *)
(* an infinity, the smallest double 5e-324 ("min"), a double known by its   *)
(* sign and a bracket of its magnitude ("between": an irrational root), or  *)
(* "some": a finite double whose value this arithmetic does not determine   *)
(* (a floor or a rounding tie decided by the last bit of an operand, a      *)
(* magnitude beyond Limit), or "any": a double, finite or not, that it does *)
(* not determine.  exact tells that the double is that number:    *)
(* the number is dyadic and no operand it was computed from was rounded.    *)
(* near tells that the double is the one nearest to the number (a decimal   *)
(* literal, a correctly rounded result of exact operands); a double that is *)
(* neither is within rounding error of the number.                          *)

RECURSIVE Pow(_, _)
Pow(x, n) == IF n = 0 THEN 1 ELSE x * Pow(x, n - 1)

Abs(x) == IF x < 0 THEN -x ELSE x

RECURSIVE Gcd(_, _)
Gcd(x, y) == IF y = 0 THEN x ELSE Gcd(y, x % y)

RECURSIVE IsPow2(_)
IsPow2(d) == d = 1 \/ (d % 2 = 0 /\ IsPow2(d \div 2))

\* the double nearest to n/d (d # 0): n/d itself when it is dyadic
D(n, d) ==
  LET g == Gcd(Abs(n), Abs(d))
      s == IF d < 0 THEN -1 ELSE 1
  IN [cls |-> "finite", num |-> (s * n) \div g, den |-> (s * d) \div g,
      exact |-> IsPow2((s * d) \div g), near |-> TRUE]

\* the double computed from the operands x and y that stands for r
Computed(r, x, y) ==
  IF x.exact /\ y.exact THEN r ELSE [r EXCEPT !.exact = FALSE, !.near = FALSE]

\* the number n a command returns (0 when it returns None or raised)
Ret(n) == D(n, 1)

\* float() of a decimal text with two decimals, v hundredths
Dec(v) == D(v, Scale)

NaN == [cls |-> "nan", num |-> 0, den |-> 1, exact |-> FALSE, near |-> FALSE]

Infinity(sign) ==
  [cls |-> "inf", num |-> sign, den |-> 1, exact |-> FALSE, near |-> FALSE]

SomeDouble == [cls |-> "some", num |-> 0, den |-> 1, exact |-> FALSE, near |-> FALSE]

\* the smallest positive double, 5e-324 = 2^-1074, or its negative
MinDouble(sign) ==
  [cls |-> "min", num |-> sign, den |-> 1, exact |-> TRUE, near |-> TRUE]

\* a finite double of the sign of k whose magnitude lies between
\* (|k| - 1) / r and |k| / r (k # 0)
Between(k, r) ==
  [cls |-> "between", num |-> k, den |-> r, exact |-> FALSE, near |-> FALSE]

IsFinite(x) == x.cls = "finite"

\* x == 0
IsZero(x) == x.cls = "finite" /\ x.num = 0

\* x < 0
IsNegative(x) == x.cls \in {"finite", "inf", "min", "between"} /\ x.num < 0

\* float.is_integer()
is_integer(x) == x.cls = "finite" /\ x.den = 1

\* the integers the arithmetic keeps exact: numerators and denominators up
\* to Limit
Limit == Scale * Scale * Scale * Scale

\* the decimals the arithmetic can round at: 10^MaxDigits = Limit
MaxDigits == CHOOSE k \in 1..Scale : Pow(10, k) = Limit

\* the number of binary digits of x >= 0
RECURSIVE Bits(_)
Bits(x) == IF x = 0 THEN 0 ELSE 1 + Bits(x \div 2)

Fits(x, y) == x = 0 \/ y = 0 \/ Abs(x) <= Limit \div Abs(y)

\* -x: the sign of a finite double or of an infinity flips, nan stays nan
Neg(x) ==
  IF x.cls \in {"finite", "inf", "min", "between"}
    THEN [x EXCEPT !.num = -x.num] ELSE x

\* abs(x): abs(-inf) is inf, abs(nan) is nan
AbsOf(x) ==
  IF x.cls \in {"finite", "inf", "min", "between"}
    THEN [x EXCEPT !.num = Abs(x.num)] ELSE x

\* the double nearest to the product of the numbers of x and y
Product(x, y) ==
  LET g1 == Gcd(Abs(x.num), y.den)
      g2 == Gcd(Abs(y.num), x.den)
      n1 == x.num \div g1
      n2 == y.num \div g2
      d1 == x.den \div g2
      d2 == y.den \div g1
  IN IF Fits(n1, n2) /\ Fits(d1, d2) THEN D(n1 * n2, d1 * d2) ELSE SomeDouble

\* x * y of finite doubles
Mul(x, y) ==
  IF ~IsFinite(x) \/ ~IsFinite(y) THEN SomeDouble
  ELSE Computed(Product(x, y), x, y)

\* x / y of finite doubles, y # 0
Div(x, y) ==
  IF ~IsFinite(x) \/ ~IsFinite(y) THEN SomeDouble
  ELSE Computed(Product(x, D(y.den, y.num)), x, y)

\* x + y of finite doubles
Plus(x, y) ==
  IF ~IsFinite(x) \/ ~IsFinite(y) THEN SomeDouble
  ELSE LET g == Gcd(x.den, y.den)
           m1 == y.den \div g
           m2 == x.den \div g
       IN IF Fits(x.den, m1) /\ Fits(x.num, m1) /\ Fits(y.num, m2)
            THEN Computed(D(x.num * m1 + y.num * m2, x.den * m1), x, y)
            ELSE SomeDouble

\* x > y of finite doubles within Limit
Greater(x, y) == x.num * y.den > y.num * x.den

\* x^n, or cap + 1 when the power exceeds cap (x >= 0, n >= 0), by squaring
RECURSIVE CapPow(_, _, _)
CapPow(x, n, cap) ==
  LET CapMul(p, q) ==
        IF p = 0 \/ q = 0 THEN 0
        ELSE IF p > cap \/ q > cap \/ p > cap \div q THEN cap + 1
        ELSE p * q
  IN IF n = 0 THEN 1
     ELSE LET h == CapPow(x, n \div 2, cap)
          IN IF n % 2 = 1 THEN CapMul(CapMul(h, h), x) ELSE CapMul(h, h)

\* the largest r in lo..hi with r^k <= w, by bisection
RECURSIVE Bisect(_, _, _, _)
Bisect(lo, hi, w, k) ==
  IF lo = hi THEN lo
  ELSE LET mid == (lo + hi + 1) \div 2
       IN IF CapPow(mid, k, w) <= w THEN Bisect(mid, hi, w, k)
                                    ELSE Bisect(lo, mid - 1, w, k)

\* the integer part of the k-th root of w (w >= 0, k >= 1): the root is
\* below 2^(Bits(w) / k)
IRoot(w, k) == Bisect(0, Pow(2, Bits(w) \div k + 1), w, k)

\* the k-th root of w (w >= 0, k >= 1) when w is a perfect k-th power, else -1
ExactRoot(w, k) == IF CapPow(IRoot(w, k), k, w) = w THEN IRoot(w, k) ELSE -1

----------------------------------------------------------------------------
(* Operation set (src/app/operations.py).  An outcome is the float         *)
(* returned, a complex value, the class and text of the exception raised,   *)
(* or "unmodelled" for operands outside the model's domain (an infinite or  *)
(* undetermined operand, a power that may leave the range of a double).     *)

Returns(x) == [err |-> "none", kind |-> "real", val |-> x]

Raise(cls, text) == [err |-> cls, kind |-> text, val |-> NaN]

Complex == [err |-> "none", kind |-> "complex", val |-> NaN]

Unmodelled == [err |-> "none", kind |-> "unmodelled", val |-> NaN]

InDomain(a, b) == a.cls \in {"finite", "nan"} /\ b.cls \in {"finite", "nan"}

\* the outcome of an arithmetic expression of the floats a and b whose value
\* for finite operands is r: nan when an operand is nan
Lift(r, a, b) ==
  IF ~InDomain(a, b) THEN Unmodelled
  ELSE IF a.cls = "nan" \/ b.cls = "nan" THEN Returns(NaN)
  ELSE Returns(r)

\* floor(x / y) of finite doubles, y # 0: the floor of the quotient when
\* both operands are exact; otherwise determined unless the quotient of the
\* numbers is whole, where the rounding of the operands decides
FloorDiv(x, y) ==
  LET q == Div(x, y)
  IN IF ~IsFinite(q) THEN SomeDouble
     ELSE IF x.exact /\ y.exact THEN D(q.num \div q.den, 1)
     ELSE IF q.den = 1 \/ q.den > Scale * Scale * Scale \/ Abs(q.num) > Limit
       THEN SomeDouble
     ELSE D(q.num \div q.den, 1)

\* x % y with the sign of the divisor: x - floor(x / y) * y
PyMod(x, y) ==
  LET f == FloorDiv(x, y) IN Plus(x, Neg(Mul(f, y)))

\* a ** e of finite doubles, the exponent e standing for n/d in lowest terms.
\* A power whose magnitude reaches 2^MaxExp leaves the range of a double and
\* raises OverflowError, also when the result is complex; a magnitude between
\* the margin MaxBits and that limit, or one that may underflow, is not
\* modelled.
PowRat(a, e) ==
  LET n == e.num
      d == e.den
      \* the power is a finite double when |n/d| * |log2 a| stays below the
      \* exponent range of a double; decided on the margin MaxBits
      MaxBits == 10 * Scale
      m == IF Abs(a.num) > a.den THEN Abs(a.num) ELSE a.den
      PowIsFinite == Abs(n) <= (MaxBits * d) \div Bits(m)
      \* |a| ** (n/d) = (big / small) ** |n/d|, and lo <= log2(big / small)
      MaxExp == 1024
      big == IF n > 0 THEN Abs(a.num) ELSE a.den
      small == IF n > 0 THEN a.den ELSE Abs(a.num)
      lo == Bits(big) - 1 - Bits(small - 1)
      \* the resolution res of the bracket of (big / small) ** (1/d): the
      \* largest power of ten with big * res^d within Limit; the root lies
      \* between k / res and (k + 1) / res for the largest k with
      \* k^d <= w = big * res^d / small
      digits == CHOOSE r \in 0..MaxDigits :
                  /\ r * d <= MaxDigits /\ big <= Limit \div Pow(10, r * d)
                  /\ \A q \in (r + 1)..MaxDigits :
                       ~(q * d <= MaxDigits /\ big <= Limit \div Pow(10, q * d))
      res == Pow(10, digits)
      w == (big * Pow(10, digits * d)) \div small
      Overflows ==
        /\ lo > 0
        /\ \/ Abs(n) > (MaxExp * d) \div lo
           \/ /\ (MaxExp * d) % lo = 0
              /\ Abs(n) = (MaxExp * d) \div lo
              /\ a.exact /\ e.exact
  IN
  IF a.num = 0
    THEN IF n = 0 THEN Returns(D(1, 1))
         ELSE IF n > 0 THEN Returns(D(0, 1))
         ELSE Raise("ZeroDivisionError", "0.0 cannot be raised to a negative power")
  ELSE IF a.num < 0 /\ d > 1
    THEN IF big <= small \/ PowIsFinite THEN Complex
         ELSE IF Overflows THEN Raise("OverflowError", "complex exponentiation")
         ELSE Unmodelled
  ELSE IF Abs(a.num) = a.den
    THEN Returns(IF a.num < 0 /\ n % 2 = 1 THEN D(-1, 1) ELSE D(1, 1))
  ELSE IF ~PowIsFinite
    THEN IF Overflows THEN Raise("OverflowError", "Numerical result out of range")
         ELSE Unmodelled
  ELSE LET rn == IF d = 1 THEN Abs(a.num) ELSE ExactRoot(Abs(a.num), d)
           rd == IF d = 1 THEN a.den ELSE ExactRoot(a.den, d)
           pn == CapPow(rn, Abs(n), Limit)
           pd == CapPow(rd, Abs(n), Limit)
           sign == IF a.num < 0 /\ n % 2 = 1 THEN -1 ELSE 1
       IN IF rn < 0 \/ rd < 0
            THEN \* an irrational root: its sign and a bracket of its magnitude
                 IF Abs(n) = 1 /\ big <= Limit
                   THEN Returns(Between(sign * (IRoot(w, d) + 1), res))
                   ELSE Returns(SomeDouble)
          ELSE IF pn > Limit \/ pd > Limit THEN Returns(SomeDouble)
          ELSE IF n >= 0 THEN Returns(Computed(D(sign * pn, pd), a, e))
          ELSE Returns(Computed(D(sign * pd, pn), a, e))

\* a ** b of floats.  The smallest double 2^-1074 raised to b <= -1 leaves
\* the range of a double (the result of a negative base is complex for
\* a fractional b, not modelled).
pow(a, b) ==
  IF a.cls = "min" /\ IsFinite(b)
    THEN IF IsZero(b) THEN Returns(D(1, 1))
         ELSE IF b = D(1, 1) THEN Returns(a)
         ELSE IF b.num < 0 /\ -b.num >= b.den /\ (a.num > 0 \/ b.den = 1)
           THEN Raise("OverflowError", "Numerical result out of range")
         ELSE Unmodelled
  ELSE IF ~InDomain(a, b) THEN Unmodelled
  ELSE IF IsFinite(a) /\ IsFinite(b) THEN PowRat(a, b)
  ELSE IF IsZero(b) \/ a = D(1, 1) THEN Returns(D(1, 1))
  ELSE Returns(NaN)

\* 1.0 / b for b # 0: 1.0 / inf is 0.0, 1.0 / nan is nan, and 1.0 / 5e-324
\* leaves the range of a double and is an infinity of the sign of b.  The
\* reciprocal of a double known by a bracket is a finite double when the
\* bracket is away from zero, of magnitude below 1 when the bracket is above
\* 1; the reciprocal of a double that may be as small as 5e-324 is finite or
\* an infinity ("any").
Reciprocal(b) ==
  IF IsFinite(b) THEN Computed(D(b.den, b.num), b, b)
  ELSE IF b.cls = "inf" THEN D(0, 1)
  ELSE IF b.cls = "min" THEN Infinity(b.num)
  ELSE IF b.cls = "between" /\ Abs(b.num) > b.den
    THEN Between(IF b.num < 0 THEN -1 ELSE 1, 1)
  ELSE IF b.cls = "between" /\ Abs(b.num) > 1 THEN SomeDouble
  ELSE IF b.cls = "nan" THEN b
  ELSE [SomeDouble EXCEPT !.cls = "any"]

Add_execute(a, b) == Lift(Plus(a, b), a, b)

Subtract_execute(a, b) == Lift(Plus(a, Neg(b)), a, b)

Multiply_execute(a, b) == Lift(Mul(a, b), a, b)

Divide_execute(a, b) ==
  IF IsZero(b) THEN Raise("OperationError", "Division by zero.") ELSE Lift(Div(a, b), a, b)

Power_execute(a, b) == pow(a, b)

Root_execute(a, b) ==
  IF IsZero(b) THEN Raise("OperationError", "Zeroth root undefined.")
  ELSE IF ~InDomain(a, b) /\ ~(a.cls = "min" /\ IsFinite(b)) THEN Unmodelled
  ELSE IF IsNegative(a)
    THEN IF is_integer(b)
           THEN IF b.num % 2 = 0
                  THEN Raise("OperationError", "Even root of negative number is not real.")
                  ELSE LET o == pow(AbsOf(a), Reciprocal(b))
                       IN IF o.err = "none" /\ o.kind = "real"
                            THEN Returns(Neg(o.val)) ELSE o
           ELSE Raise("OperationError", "Root of negative base requires an integer index.")
    ELSE pow(a, Reciprocal(b))

Modulus_execute(a, b) ==
  IF IsZero(b) THEN Raise("OperationError", "Modulus by zero.") ELSE Lift(PyMod(a, b), a, b)

IntDivide_execute(a, b) ==
  IF IsZero(b) THEN Raise("OperationError", "Integer division by zero.")
  ELSE Lift(FloorDiv(a, b), a, b)

Percent_execute(a, b) ==
  IF IsZero(b) THEN Raise("OperationError", "Percentage with denominator zero.")
  ELSE Lift(Mul(Div(a, b), D(100, 1)), a, b)

AbsDiff_execute(a, b) == Lift(AbsOf(Plus(a, Neg(b))), a, b)

\* OperationFactory.mapping: the recognized keys
mapping == {"add", "subtract", "multiply", "divide", "power", "root",
            "modulus", "int_divide", "percent", "abs_diff"}

\* name.strip().lower()
strip_lower(name) == lower(strip(name))

\* OperationFactory.create followed by op.execute(a, b)
execute(name, a, b) ==
  LET key == Str(strip_lower(name))
  IN CASE key \notin mapping -> Raise("OperationError", "Unknown operation")
       [] key = "add" -> Add_execute(a, b)
       [] key = "subtract" -> Subtract_execute(a, b)
       [] key = "multiply" -> Multiply_execute(a, b)
       [] key = "divide" -> Divide_execute(a, b)
       [] key = "power" -> Power_execute(a, b)
       [] key = "root" -> Root_execute(a, b)
       [] key = "modulus" -> Modulus_execute(a, b)
       [] key = "int_divide" -> IntDivide_execute(a, b)
       [] key = "percent" -> Percent_execute(a, b)
       [] key = "abs_diff" -> AbsDiff_execute(a, b)

\* n/d (d > 0) rounded to the nearest integer, ties to even
RoundHalfEven(n, d) ==
  LET q == n \div d
      r == n % d
  IN IF 2 * r < d THEN q
     ELSE IF 2 * r > d THEN q + 1
     ELSE IF q % 2 = 0 THEN q ELSE q + 1

\* round(x, p) of a finite double, p >= 0: the number itself when it has no
\* more than p decimals; else the nearest multiple of 10^-p, where a tie of
\* a double that is not exact is decided by the double's last bit
round_finite(x, p) ==
  LET digits == IF p < MaxDigits THEN p ELSE MaxDigits
      unit == Pow(10, digits)
  IN IF unit % x.den = 0 THEN (IF p <= MaxDigits THEN D(x.num, x.den) ELSE x)
     ELSE IF p > MaxDigits \/ ~Fits(x.num, unit) THEN SomeDouble
     ELSE IF 2 * ((x.num * unit) % x.den) = x.den /\ ~x.exact THEN SomeDouble
     ELSE D(RoundHalfEven(x.num * unit, x.den), unit)

\* round(result, precision) applied to the outcome of execute; for p < 0
\* the value is rounded to the nearest multiple of 10^-p
round(x, p) ==
  LET \* to a multiple of unit = 10^-p: the double nearest to the rounded
      \* number; half-way between two multiples the last bit of an inexact
      \* double decides
      tens(v, unit) ==
        IF 2 * (v.num % (v.den * unit)) = v.den * unit /\ ~v.exact THEN SomeDouble
        ELSE D(RoundHalfEven(v.num, v.den * unit) * unit, 1)
      round_tens(v) ==
        IF -p > MaxDigits \/ ~Fits(v.den, Pow(10, -p)) THEN SomeDouble
        ELSE tens(v, Pow(10, -p))
  IN IF x.kind = "complex"
       THEN Raise("TypeError", "type complex doesn't define __round__ method")
     ELSE IF x.val.cls = "min" THEN Returns(D(0, 1))
     ELSE IF x.val.cls = "between" THEN Returns(SomeDouble)
     ELSE IF ~IsFinite(x.val) THEN x
     ELSE Returns(IF p >= 0 THEN round_finite(x.val, p) ELSE round_tens(x.val))

----------------------------------------------------------------------------
(* Calculation (src/app/calculation.py) *)

\* Calculation.from_values that stores the operands in the wrong order
from_values_swapped(operation, a, b, result, clock) ==
  [operation |-> operation, a |-> b, b |-> a, result |-> result,
   timestamp |-> clock]

\* Calculation.from_values: the record stamped with the clock reading
from_values(operation, a, b, result, clock) ==
  [operation |-> operation, a |-> a, b |-> b, result |-> result,
   timestamp |-> clock]

----------------------------------------------------------------------------
(* Persistence (src/app/history.py).  A file is absent, or bytes that hold  *)
(* a table: decode tells which decoding reads the bytes ("primary": the     *)
(* configured encoding, "fallback": only utf-8-sig, "none": neither), the   *)
(* header is the sequence of the column names (empty for a zero-byte file)  *)
(* and each row maps the column names to cells.  A cell of a, b or result   *)
(* is a text, the sequence of its characters; a text the model does not     *)
(* spell out is a cell of kind "repr": the repr of the double it names (an  *)
(* exponent, more digits than the arithmetic holds, a zero, whose sign the  *)
(* model does not keep).  A file that cannot be opened for reading has       *)
(* decode "unreadable".                                                     *)

NoFile == [exists |-> FALSE, decode |-> "primary", header |-> <<>>, rows |-> <<>>]

\* the words read_csv does not keep as text: its default na_values, and the
\* texts it reads as True and as False
Lexicon ==
  [ na_values |->
      { <<>>, <<"#", "N", "/", "A">>, <<"#", "N", "/", "A", " ", "N", "/", "A">>,
        <<"#", "N", "A">>, <<"-", "1", ".", "#", "I", "N", "D">>,
        <<"-", "1", ".", "#", "Q", "N", "A", "N">>, <<"-", "N", "a", "N">>,
        <<"-", "n", "a", "n">>, <<"1", ".", "#", "I", "N", "D">>,
        <<"1", ".", "#", "Q", "N", "A", "N">>, <<"<", "N", "A", ">">>,
        <<"N", "/", "A">>, <<"N", "A">>, <<"N", "U", "L", "L">>, <<"N", "a", "N">>,
        <<"N", "o", "n", "e">>, <<"n", "/", "a">>, <<"n", "a", "n">>,
        <<"n", "u", "l", "l">> },
    true_values |-> {<<"T", "r", "u", "e">>, <<"T", "R", "U", "E">>, <<"t", "r", "u", "e">>},
    false_values |-> {<<"F", "a", "l", "s", "e">>, <<"F", "A", "L", "S", "E">>,
                      <<"f", "a", "l", "s", "e">>} ]

\* the cell that holds the characters chars
Cell(chars) == [kind |-> "text", text |-> chars]

\* the text to_csv writes for the float x: nothing for nan, inf and -inf
\* for the infinities, else repr(x), the shortest decimal that reads back
\* as x.  For the double
\* nearest to a decimal of at most 15 significant digits that is the
\* decimal itself, written without exponent from 0.0001 on.
float_repr(x) ==
  LET digit == <<"0", "1", "2", "3", "4", "5", "6", "7", "8", "9">>
      RECURSIVE digits(_)
      digits(n) == IF n < 10 THEN <<digit[n + 1]>>
                   ELSE Append(digits(n \div 10), digit[(n % 10) + 1])
      \* x written with k decimals: whole, the point, frac filled with zeros
      \* in front, when these are the digits of repr(x)
      spelled(k, whole, frac) ==
        IF /\ x.cls = "finite" /\ x.near /\ x.num # 0
           /\ k <= MaxDigits
           /\ Len(whole) + k <= 15
           /\ Abs(x.num) >= x.den \div 10000 + (IF x.den % 10000 = 0 THEN 0 ELSE 1)
          THEN Cell((IF x.num < 0 THEN <<"-">> ELSE <<>>) \o whole \o <<".">>
                      \o (IF k = 0 THEN <<"0">>
                          ELSE [i \in 1..(k - Len(frac)) |-> "0"] \o frac))
          ELSE [kind |-> "repr", of |-> x]
      decimal(k) ==
        spelled(k, digits(Abs(x.num) \div x.den),
                digits((Abs(x.num) % x.den) * (Pow(10, k) \div x.den)))
  IN IF x.cls = "nan" THEN Cell(<<>>)
     ELSE IF x.cls = "inf"
       THEN Cell(IF x.num < 0 THEN <<"-", "i", "n", "f">> ELSE <<"i", "n", "f">>)
     \* the decimals of x: the least k with x.den | 10^k
     ELSE decimal(CHOOSE j \in 0..(MaxDigits + 1) :
                    /\ j = MaxDigits + 1 \/ Pow(10, j) % x.den = 0
                    /\ \A i \in 0..(j - 1) : Pow(10, i) % x.den # 0)

\* what read_csv makes of a cell of a column it reads: "na" for a missing
\* value (it becomes nan), "float" with the double for a numeral, "bool" for
\* a truth value (1.0 or 0.0 as a float), "str" for a word that is none of
\* these, "unmodelled" for any other text.  A numeral is a sign, digits
\* with at most one point among them, and an exponent; one of at most 15
\* significant digits gives the nearest double.  The default converter is
\* not the round-trip one, so a longer numeral gives a double within
\* rounding error of the one repr was taken of.
read_cell(c) ==
  LET \* the value of a decimal digit, -1 for any other character
      value(ch) ==
        CASE ch = "0" -> 0 [] ch = "1" -> 1 [] ch = "2" -> 2 [] ch = "3" -> 3
          [] ch = "4" -> 4 [] ch = "5" -> 5 [] ch = "6" -> 6 [] ch = "7" -> 7
          [] ch = "8" -> 8 [] ch = "9" -> 9 [] OTHER -> -1
      letter(ch) ==
        ch \in DOMAIN LowerTable \/ \E up \in DOMAIN LowerTable : LowerTable[up] = ch
      \* the number of digits of the exponent whose digits start at the
      \* j-th character of t, 0 when they are not digits to the end
      exponent(t, j) ==
        IF j <= Len(t) /\ \A h \in j..Len(t) : value(t[h]) >= 0
          THEN Len(t) - j + 1 ELSE 0
      \* numeral(t, i, n, k, m) reads t from the i-th character on: m digits
      \* are read, n is the number the first nine of them spell, k how many
      \* follow the point (-1 before the point), e the digits of the
      \* exponent (-1 without exponent)
      RECURSIVE numeral(_, _, _, _, _)
      numeral(t, i, n, k, m) ==
        IF i > Len(t)
          THEN [ok |-> m > 0, n |-> n, k |-> IF k < 0 THEN 0 ELSE k, m |-> m, e |-> -1]
        ELSE IF value(t[i]) >= 0 \/ (t[i] = "." /\ k < 0)
          THEN numeral(t, i + 1,
                       IF t[i] = "." \/ m >= 9 THEN n ELSE 10 * n + value(t[i]),
                       IF t[i] = "." THEN 0 ELSE IF k < 0 THEN k ELSE k + 1,
                       IF t[i] = "." THEN m ELSE m + 1)
        ELSE IF t[i] \in {"e", "E"}
          THEN [ok |-> m > 0, n |-> n, k |-> k, m |-> m,
                e |-> exponent(t, IF i < Len(t) /\ t[i + 1] \in {"-", "+"}
                                    THEN i + 2 ELSE i + 1)]
        ELSE [ok |-> FALSE, n |-> 0, k |-> 0, m |-> 0, e |-> 0]
      \* the double of a numeral of at most nine digits
      nearest(x) == IF Abs(x.num) <= Limit /\ x.den <= Limit THEN x ELSE SomeDouble
      \* the text t, whose sign is sign and whose body is read as read
      typed(t, sign, body, read) ==
        IF read.ok /\ read.e # 0
          THEN IF read.e < 0 /\ read.m <= 9
                 THEN [type |-> "float",
                       val |-> nearest(D(sign * read.n, Pow(10, read.k)))]
               ELSE IF read.e <= 2 /\ read.m <= 200
                 THEN [type |-> "float", val |-> SomeDouble]
               ELSE [type |-> "unmodelled", val |-> NaN]
        ELSE IF t \in Lexicon.na_values THEN [type |-> "na", val |-> NaN]
        ELSE IF t \in Lexicon.true_values THEN [type |-> "bool", val |-> D(1, 1)]
        ELSE IF t \in Lexicon.false_values THEN [type |-> "bool", val |-> D(0, 1)]
        ELSE IF body = <<"i", "n", "f">> THEN [type |-> "float", val |-> Infinity(sign)]
        ELSE IF /\ \A h \in 1..Len(t) : letter(t[h]) \/ t[h] \in {"-", "_"}
                /\ \E h \in 1..Len(t) : letter(t[h])
                /\ Str(lower(body)) \notin {"inf", "infinity", "nan"}
          THEN [type |-> "str", val |-> NaN]
        ELSE [type |-> "unmodelled", val |-> NaN]
      signed(t, first) ==
        typed(t, IF first = 2 /\ t[1] = "-" THEN -1 ELSE 1, SubSeq(t, first, Len(t)),
              numeral(t, first, 0, -1, 0))
  IN IF c.kind = "repr"
       THEN [type |-> "float",
             val |-> IF IsFinite(c.of) /\ ~IsZero(c.of)
                       THEN [c.of EXCEPT !.exact = FALSE, !.near = FALSE]
                     ELSE IF c.of.cls = "min" THEN SomeDouble
                     ELSE c.of]
     ELSE signed(c.text, IF c.text # <<>> /\ c.text[1] \in {"-", "+"} THEN 2 ELSE 1)

\* the column order of to_dataframe, and the required set of _validate_loaded_df
columns == <<"operation", "a", "b", "result", "timestamp">>
required == {"operation", "a", "b", "result", "timestamp"}

NoError == [err |-> "none", msg |-> NoMsg]

\* History.to_dataframe: one row per record, the to_dict of the record, in
\* the column order operation, a, b, result, timestamp
to_dataframe(its) ==
  [i \in 1..Len(its) |->
     [operation |-> its[i].operation, a |-> its[i].a, b |-> its[i].b,
      result |-> its[i].result, timestamp |-> its[i].timestamp]]

\* the line to_csv writes for a row of the DataFrame: the floats as text
to_csv_row(r) ==
  [operation |-> r.operation, a |-> float_repr(r.a), b |-> float_repr(r.b),
   result |-> float_repr(r.result), timestamp |-> r.timestamp]

\* History._atomic_write: the destination becomes the complete new table,
\* written in the configured encoding
_atomic_write(df) ==
  [exists |-> TRUE, decode |-> "primary", header |-> columns,
   rows |-> [i \in 1..Len(df) |-> to_csv_row(df[i])]]

\* load_config() as save_csv and load_csv call it, before their try blocks:
\* the environment env is read again, and a variable that has become
\* malformed makes int() or float() raise ValueError, a directory path that
\* has become a file makes os.makedirs raise FileExistsError; neither is
\* caught by the caller
load_config(env) ==
  IF env = "ValueError"
    THEN [err |-> "ValueError", msg |-> Msg("invalid literal for int() with base 10")]
  ELSE IF env = "FileExistsError"
    THEN [err |-> "FileExistsError", msg |-> Msg("File exists")]
  ELSE NoError

\* History.save_csv in the environment env: the exception of load_config, or
\* HistoryError when a step of the try block raises (env "OSError": the
\* temporary file cannot be created or written and the destination stays;
\* env "CopyError": os.rename raises, and the copy shutil.move falls back to
\* raises after it has opened, and so emptied, the destination), or the new
\* file
save_csv(its, f, env) ==
  IF load_config(env).err # "none"
    THEN [err |-> load_config(env).err, msg |-> load_config(env).msg, file |-> f]
  ELSE IF env = "OSError"
    THEN [err |-> "HistoryError", msg |-> Msg("Failed to save history"), file |-> f]
  ELSE IF env = "CopyError"
    THEN [err |-> "HistoryError", msg |-> Msg("Failed to save history"),
          file |-> [exists |-> TRUE, decode |-> "primary", header |-> <<>>, rows |-> <<>>]]
  ELSE [err |-> "none", msg |-> NoMsg, file |-> _atomic_write(to_dataframe(its))]

\* History._read_with_fallback: the configured encoding, then utf-8-sig; a
\* file without header is EmptyDataError, mapped to HistoryError; a decode
\* error of the second read leaves the function as UnicodeDecodeError, and
\* the OSError of a file that cannot be opened passes through
_read_with_fallback(f) ==
  IF f.decode = "unreadable"
    THEN [err |-> "PermissionError", msg |-> Msg("Permission denied")]
  ELSE IF f.decode = "none"
    THEN [err |-> "UnicodeDecodeError", msg |-> Msg("codec can't decode")]
    ELSE IF f.header = <<>>
      THEN [err |-> "HistoryError", msg |-> Msg("History file is empty.")]
      ELSE NoError

\* History._validate_loaded_df: df.empty first, then the missing columns
_validate_loaded_df(f) ==
  IF f.rows = <<>>
    THEN [err |-> "HistoryError", msg |-> Msg("History file is empty.")]
    ELSE IF ~(required \subseteq Range(f.header))
      THEN [err |-> "HistoryError",
            msg |-> [kind |-> "missing columns", cols |-> required \ Range(f.header)]]
      ELSE NoError

RECURSIVE read_csv(_)
\* pd.read_csv on the lines of a file with the five columns: the rows of
\* the DataFrame, each cell of a, b and result as read_cell types it
read_csv(lines) ==
  IF lines = <<>> THEN <<>>
  ELSE << [operation |-> Head(lines).operation, a |-> read_cell(Head(lines).a),
           b |-> read_cell(Head(lines).b), result |-> read_cell(Head(lines).result),
           timestamp |-> Head(lines).timestamp] >> \o read_csv(Tail(lines))

\* df.astype(float64) of the columns a, b and result.  read_csv has given
\* a column of numerals and missing values the type float64, a column of
\* truth values bool (object with missing values), and kept any other
\* column as the strings of its cells: float() of a string that is no
\* numeral raises ValueError.
astype(df) ==
  LET types(c) == {df[i][c].type : i \in 1..Len(df)}
      strings(c) == "str" \in types(c) \/ {"bool", "float"} \subseteq types(c)
  IN IF \E c \in {"a", "b", "result"} : strings(c)
       THEN [err |-> "ValueError", msg |-> Msg("could not convert string to float")]
     ELSE IF \E c \in {"a", "b", "result"} : "unmodelled" \in types(c)
       THEN [err |-> "unmodelled", msg |-> NoMsg]
     ELSE NoError

\* the Calculation built from one row of the DataFrame: float() of a, b
\* and result as astype has left them
from_row(row) ==
  [operation |-> row.operation, a |-> row.a.val, b |-> row.b.val,
   result |-> row.result.val, timestamp |-> row.timestamp]

\* the try block of load_csv: the first exception of read, validate and
\* astype, and the DataFrame when there is none
load_try(f) ==
  LET raised(e) == [err |-> e.err, msg |-> e.msg, df |-> <<>>]
      converted(df, typed) == IF typed.err = "none" THEN [raised(typed) EXCEPT !.df = df]
                              ELSE raised(typed)
      read(df) == converted(df, astype(df))
  IN IF _read_with_fallback(f).err # "none" THEN raised(_read_with_fallback(f))
     ELSE IF _validate_loaded_df(f).err # "none" THEN raised(_validate_loaded_df(f))
     ELSE read(read_csv(f.rows))

\* the except clauses of load_csv: HistoryError is re-raised, a ValueError
\* (UnicodeDecodeError is one) becomes HistoryError "invalid data types",
\* any other exception HistoryError "Failed to load history"
load_except(e) ==
  IF e.err \in {"HistoryError", "unmodelled"} THEN [err |-> e.err, msg |-> e.msg]
  ELSE IF e.err \in {"ValueError", "UnicodeDecodeError"}
    THEN [err |-> "HistoryError", msg |-> Msg("invalid data types")]
  ELSE [err |-> "HistoryError", msg |-> Msg("Failed to load history")]

\* a failing load that has already emptied the list
Failed_emptied(e, its) == [err |-> e.err, msg |-> e.msg, items |-> <<>>, ret |-> 0]

Failed(e, its) == [err |-> e.err, msg |-> e.msg, items |-> its, ret |-> 0]

\* load_csv that appends the rows to the records already held
load_csv_merge(its, f, env) ==
  IF load_config(env).err # "none" THEN Failed(load_config(env), its)
  ELSE IF ~f.exists
    THEN Failed([err |-> "HistoryError", msg |-> Msg("History file not found.")], its)
  ELSE LET rebuilt(loaded) ==
             [err |-> "none", msg |-> NoMsg, items |-> loaded, ret |-> Len(loaded)]
           tried(r) ==
             IF r.err # "none" THEN Failed(load_except(r), its)
             ELSE rebuilt(its \o [i \in 1..Len(r.df) |-> from_row(r.df[i])])
       IN tried(load_try(f))

\* History.load_csv in the environment env: the exception of load_config,
\* else the records of the file replace the list, untrimmed
load_csv(its, f, env) ==
  IF load_config(env).err # "none" THEN Failed(load_config(env), its)
  ELSE IF ~f.exists
    THEN Failed([err |-> "HistoryError", msg |-> Msg("History file not found.")], its)
  ELSE LET rebuilt(loaded) ==
             [err |-> "none", msg |-> NoMsg, items |-> loaded, ret |-> Len(loaded)]
           tried(r) ==
             IF r.err # "none" THEN Failed(load_except(r), its)
             ELSE rebuilt([i \in 1..Len(r.df) |-> from_row(r.df[i])])
       IN tried(load_try(f))

----------------------------------------------------------------------------
(* Inputs *)

\* operation names and command words as typed, each the sequence of its
\* characters: the ten keys of the mapping, a name that is no key, and exit
Word ==
  [ add |-> <<"a", "d", "d">>,
    subtract |-> <<"s", "u", "b", "t", "r", "a", "c", "t">>,
    multiply |-> <<"m", "u", "l", "t", "i", "p", "l", "y">>,
    divide |-> <<"d", "i", "v", "i", "d", "e">>,
    power |-> <<"p", "o", "w", "e", "r">>,
    root |-> <<"r", "o", "o", "t">>,
    modulus |-> <<"m", "o", "d", "u", "l", "u", "s">>,
    int_divide |-> <<"i", "n", "t", "_", "d", "i", "v", "i", "d", "e">>,
    percent |-> <<"p", "e", "r", "c", "e", "n", "t">>,
    abs_diff |-> <<"a", "b", "s", "_", "d", "i", "f", "f">>,
    sqrt |-> <<"s", "q", "r", "t">>,
    exit |-> <<"e", "x", "i", "t">> ]

\* (op_name, a, b) triples passed to calculate
CalcInputs ==
  { <<Word.add, Dec(100), Dec(200)>>,        \* 1 + 2
    <<Word.divide, Dec(100), Dec(0)>>,       \* OperationError
    <<Word.sqrt, Dec(100), Dec(200)>> }      \* unknown operation

\* precision of the configuration (CALCULATOR_PRECISION)
CfgPrecisions == {2}

\* a well-formed row of a file written by another session
GoodRow(i) ==
  [operation |-> "add", a |-> float_repr(D(i, 1)), b |-> Cell(<<"0", ".", "0">>),
   result |-> float_repr(D(i, 1)), timestamp |-> 0]

\* a table of n well-formed rows with the full header
GoodFile(n, decode) ==
  [exists |-> TRUE, decode |-> decode, header |-> columns,
   rows |-> [i \in 1..n |-> GoodRow(i)]]

\* the files that may be at cfg.history_file when the session starts
InitialFiles ==
  { NoFile,
    [GoodFile(0, "primary") EXCEPT !.header = <<>>],
    GoodFile(0, "primary"),
    [exists |-> TRUE, decode |-> "primary", header |-> <<"operation", "a", "b">>,
     rows |-> << [operation |-> "add", a |-> Cell(<<"1", ".", "0">>),
                  b |-> Cell(<<"2", ".", "0">>)] >>],
    \* result is "not-a-float"; results are "NA" and "True"
    [GoodFile(1, "primary") EXCEPT
       !.rows[1].result = Cell(<<"n", "o", "t", "-", "a", "-", "f", "l", "o", "a", "t">>)],
    [GoodFile(2, "fallback") EXCEPT !.rows[1].result = Cell(<<"N", "A">>),
                                    !.rows[2].result = Cell(<<"T", "r", "u", "e">>)],
    GoodFile(1, "none"),
    GoodFile(1, "unreadable"),
    GoodFile(MaxHistory + 1, "primary") }

----------------------------------------------------------------------------
(* Calculator facade (src/app/calculator.py) *)

Pre == [items |-> items, undo |-> undo, redo |-> redo]

\* no save in progress
Idle == [pc |-> "idle", tmp |-> NoFile, old |-> NoFile]

\* no command registered
EmptyRegistry == [specs |-> {}, alias_to_name |-> {}]

NoOut == [kind |-> "", names |-> {}, recs |-> <<>>]
NoCall == [name |-> "", args |-> <<>>, result |-> Raise("none", "")]

\* the exception handlers of main that lose the handler for Exception
main_except_taxonomy_only(r, e) ==
  IF r = "running"
       /\ e \notin {"none", "OperationError", "ValidationError", "HistoryError"}
    THEN "ended" ELSE r

\* the exception handlers of main: only KeyboardInterrupt and EOFError
\* leave the loop, every other exception is printed and the loop goes on
main_except(r, e) ==
  IF r = "running" /\ e \in {"KeyboardInterrupt", "EOFError"} THEN "ended" ELSE r

\* what main prints after a command that raised e (nothing without REPL)
main_print(r, e) ==
  IF r # "running" THEN NoOut
  ELSE IF e = "none" THEN [NoOut EXCEPT !.kind = "ok"]
  ELSE IF e \in {"OperationError", "ValidationError", "HistoryError"}
    THEN [NoOut EXCEPT !.kind = "Error"]
  ELSE IF e \in {"KeyboardInterrupt", "EOFError"} THEN [NoOut EXCEPT !.kind = "Bye!"]
  ELSE IF e = "CalculatorError" THEN [NoOut EXCEPT !.kind = "Calculator error"]
  ELSE [NoOut EXCEPT !.kind = "Unexpected error"]

\* a facade command: called directly, or by main for a line of the REPL,
\* which then prints its outcome and goes on
FacadeFrame ==
  /\ repl # "ended"
  /\ repl' = main_except(repl, lastErr')
  /\ out' = main_print(repl, lastErr')
  /\ UNCHANGED <<saving, registry, call>>

Init ==
  /\ items = <<>>
  /\ undo = <<>>
  /\ redo = <<>>
  /\ file \in InitialFiles
  /\ autosave \in BOOLEAN
  /\ precision \in CfgPrecisions
  /\ now = 1
  /\ lastCmd = "init"
  /\ lastErr = "none"
  /\ lastMsg = NoMsg
  /\ lastRet = Ret(0)
  /\ pre = [items |-> <<>>, undo |-> <<>>, redo |-> <<>>]
  /\ saving = Idle
  /\ repl = "none"
  /\ registry = EmptyRegistry
  /\ out = NoOut
  /\ call = NoCall

\* AutoSaveObserver.update that saves whatever the flag says
AutoSaveObserver_update_always(enabled, its, f, env) ==
  save_csv(its, f, env)

\* AutoSaveObserver.update: saves the History when the flag is set
AutoSaveObserver_update(enabled, its, f, env) ==
  IF enabled THEN save_csv(its, f, env)
  ELSE [file |-> f, err |-> "none", msg |-> NoMsg]

\* AutoSaveObserver.is_enabled
is_enabled == autosave

\* op.execute(a, b) and round(result, self.precision): the rounded outcome,
\* or the exception raised
rounded(op_name, a, b, p) ==
  LET raw == execute(op_name, a, b)
  IN IF raw.err = "none" THEN round(raw, p) ELSE raw

\* Calculator.calculate, with AutoSaveObserver.update in _notify
calculate(op_name, a, b, env) ==
  /\ now < MaxTime
  /\ Len(undo) < MaxUndo
  /\ \E res \in {rounded(op_name, a, b, precision)} :
       /\ res.kind # "unmodelled"
       /\ \E ct \in {Caretaker_save(undo, redo, to_snapshot(items))} :
            IF res.err # "none"
              THEN /\ undo' = seen(ct.undo, items, TRUE)
                   /\ redo' = seen(ct.redo, items, TRUE)
                   /\ items' = items
                   /\ file' = file
                   /\ now' = now
                   /\ lastErr' = res.err
                   /\ lastMsg' = Msg(res.kind)
                   /\ lastRet' = Ret(0)
              ELSE \E added \in {add(items, from_values(Str(op_name), a, b, res.val, now))} :
                   \E saved \in {AutoSaveObserver_update(autosave, added, file, env)} :
                     /\ undo' = seen(ct.undo, added, TRUE)
                     /\ redo' = seen(ct.redo, added, TRUE)
                     /\ items' = added
                     /\ now' = now + 1
                     /\ file' = saved.file
                     /\ lastErr' = saved.err
                     /\ lastMsg' = saved.msg
                     /\ lastRet' = IF saved.err = "none" THEN res.val ELSE Ret(0)
  /\ lastCmd' = "calculate"
  /\ pre' = Pre
  /\ UNCHANGED <<autosave, precision>>
  /\ FacadeFrame

\* Calculator.cmd_clear that notifies the autosave observer
cmd_clear_notifying ==
  /\ Len(undo) < MaxUndo
  /\ LET ct == Caretaker_save(undo, redo, to_snapshot(items))
     IN /\ undo' = seen(ct.undo, clear(items), TRUE)
        /\ redo' = seen(ct.redo, clear(items), TRUE)
  /\ items' = clear(items)
  /\ file' = AutoSaveObserver_update(autosave, clear(items), file, "ok").file
  /\ lastCmd' = "clear"
  /\ lastErr' = "none"
  /\ lastMsg' = NoMsg
  /\ lastRet' = Ret(0)
  /\ pre' = Pre
  /\ UNCHANGED <<autosave, precision, now>>
  /\ FacadeFrame

\* Calculator.cmd_clear
cmd_clear ==
  /\ Len(undo) < MaxUndo
  /\ LET ct == Caretaker_save(undo, redo, to_snapshot(items))
     IN /\ undo' = seen(ct.undo, clear(items), TRUE)
        /\ redo' = seen(ct.redo, clear(items), TRUE)
  /\ items' = clear(items)
  /\ lastCmd' = "clear"
  /\ lastErr' = "none"
  /\ lastMsg' = NoMsg
  /\ lastRet' = Ret(0)
  /\ pre' = Pre
  /\ UNCHANGED <<file, autosave, precision, now>>
  /\ FacadeFrame

\* Calculator.cmd_undo
cmd_undo ==
  /\ LET r == Caretaker_undo(undo, redo, to_snapshot(items))
     IN /\ undo' = IF r.err = "none" THEN seen(r.undo, restore(r.snap), FALSE) ELSE r.undo
        /\ redo' = IF r.err = "none" THEN seen(r.redo, restore(r.snap), FALSE) ELSE r.redo
        /\ items' = IF r.err = "none" THEN restore(r.snap) ELSE items
        /\ lastErr' = r.err
        /\ lastMsg' = r.msg
  /\ lastCmd' = "undo"
  /\ lastRet' = Ret(0)
  /\ pre' = Pre
  /\ UNCHANGED <<file, autosave, precision, now>>
  /\ FacadeFrame

\* Calculator.cmd_redo
cmd_redo ==
  /\ LET r == Caretaker_redo(undo, redo, to_snapshot(items))
     IN /\ undo' = IF r.err = "none" THEN seen(r.undo, restore(r.snap), FALSE) ELSE r.undo
        /\ redo' = IF r.err = "none" THEN seen(r.redo, restore(r.snap), FALSE) ELSE r.redo
        /\ items' = IF r.err = "none" THEN restore(r.snap) ELSE items
        /\ lastErr' = r.err
        /\ lastMsg' = r.msg
  /\ lastCmd' = "redo"
  /\ lastRet' = Ret(0)
  /\ pre' = Pre
  /\ UNCHANGED <<file, autosave, precision, now>>
  /\ FacadeFrame

\* Calculator.cmd_save
cmd_save(env) ==
  /\ \E r \in {save_csv(items, file, env)} :
       /\ file' = r.file
       /\ lastErr' = r.err
       /\ lastMsg' = r.msg
  /\ lastCmd' = "save"
  /\ lastRet' = Ret(0)
  /\ pre' = Pre
  /\ UNCHANGED <<items, undo, redo, autosave, precision, now>>
  /\ FacadeFrame

\* Calculator.cmd_load
cmd_load(env) ==
  /\ Len(undo) < MaxUndo
  /\ \E ct \in {Caretaker_save(undo, redo, to_snapshot(items))},
        r \in {load_csv(items, file, env)} :
       /\ undo' = IF r.err = "none" THEN seen(ct.undo, r.items, FALSE) ELSE ct.undo
       /\ redo' = IF r.err = "none" THEN seen(ct.redo, r.items, FALSE) ELSE ct.redo
       /\ items' = r.items
       /\ lastErr' = r.err
       /\ lastMsg' = r.msg
       /\ lastRet' = Ret(r.ret)
  /\ lastCmd' = "load"
  /\ pre' = Pre
  /\ UNCHANGED <<file, autosave, precision, now>>
  /\ FacadeFrame

\* Calculator.cmd_set_precision with the upper guard off by one
cmd_set_precision_off_by_one(n) ==
  /\ IF n < 0 \/ n > 19
       THEN /\ precision' = precision
            /\ lastErr' = "ValidationError"
            /\ lastMsg' = Msg("Precision must be between 0 and 18.")
            /\ lastRet' = Ret(0)
       ELSE /\ precision' = n
            /\ lastErr' = "none"
            /\ lastMsg' = NoMsg
            /\ lastRet' = Ret(n)
  /\ lastCmd' = "set_precision"
  /\ pre' = Pre
  /\ UNCHANGED <<items, undo, redo, file, autosave, now>>
  /\ FacadeFrame

\* Calculator.cmd_set_precision
cmd_set_precision(n) ==
  /\ IF n < 0 \/ n > 18
       THEN /\ precision' = precision
            /\ lastErr' = "ValidationError"
            /\ lastMsg' = Msg("Precision must be between 0 and 18.")
            /\ lastRet' = Ret(0)
       ELSE /\ precision' = n
            /\ lastErr' = "none"
            /\ lastMsg' = NoMsg
            /\ lastRet' = Ret(n)
  /\ lastCmd' = "set_precision"
  /\ pre' = Pre
  /\ UNCHANGED <<items, undo, redo, file, autosave, now>>
  /\ FacadeFrame

\* Calculator.cmd_get_precision
cmd_get_precision ==
  /\ lastCmd' = "get_precision"
  /\ lastErr' = "none"
  /\ lastMsg' = NoMsg
  /\ lastRet' = Ret(precision)
  /\ pre' = Pre
  /\ UNCHANGED <<items, undo, redo, file, autosave, precision, now>>
  /\ FacadeFrame

\* AutoSaveObserver.set_enabled
set_enabled(value) ==
  /\ autosave' = value
  /\ lastCmd' = "set_enabled"
  /\ lastErr' = "none"
  /\ lastMsg' = NoMsg
  /\ lastRet' = Ret(0)
  /\ pre' = Pre
  /\ UNCHANGED <<items, undo, redo, file, precision, now>>
  /\ FacadeFrame

Next ==
  \* the environment of the save matters only to a calculation that succeeds
  \/ \E c \in CalcInputs, env \in {"ok", "OSError"} :
       (env = "ok" \/ c[1] = Word.add) /\ calculate(c[1], c[2], c[3], env)
  \/ cmd_clear
  \/ cmd_undo
  \/ cmd_redo
  \/ \E env \in {"ok", "OSError", "ValueError"} : cmd_save(env)
  \/ \E env \in {"ok", "FileExistsError"} : cmd_load(env)
  \/ cmd_set_precision(2)
  \/ \E value \in BOOLEAN : set_enabled(value)

Spec == Init /\ [][Next]_vars

----------------------------------------------------------------------------
(* The save, step by step (History.save_csv and _atomic_write): the table   *)
(* is written chunk by chunk (the header, then each row) to a temporary     *)
(* file of the destination's directory, which shutil.move then moves over   *)
(* the destination: by os.rename, or, when os.rename raises OSError (on     *)
(* Windows whenever the destination exists, elsewhere for a destination     *)
(* that cannot be replaced, such as a mount point), by copying the          *)
(* temporary file into the destination and unlinking it.  The process may   *)
(* be killed at any step.                                                   *)

\* True when f is the complete table of the records its
IsTableOf(f, its) ==
  /\ f.exists
  /\ f.header = <<"operation", "a", "b", "result", "timestamp">>
  /\ Len(f.rows) = Len(its)
  /\ \A i \in 1..Len(its) :
       /\ f.rows[i].operation = its[i].operation
       /\ read_cell(f.rows[i].a).val = its[i].a
       /\ read_cell(f.rows[i].b).val = its[i].b
       /\ read_cell(f.rows[i].result).val = its[i].result
       /\ f.rows[i].timestamp = its[i].timestamp

\* the bytes of f after to_csv has written one more chunk of df
write_chunk(f, df) ==
  IF f.header = <<>>
    THEN [f EXCEPT !.header = columns]
    ELSE [f EXCEPT !.rows = Append(f.rows, to_csv_row(df[Len(f.rows) + 1]))]

\* True when to_csv has written all of df
written(f, df) == f.header = columns /\ Len(f.rows) = Len(df)

\* NamedTemporaryFile(delete=False, dir=directory): a new zero-byte file
NamedTemporaryFile == [exists |-> TRUE, decode |-> "primary", header |-> <<>>, rows |-> <<>>]

\* df.to_csv(tmp_path): one more chunk in the temporary file
to_csv(s, f, df) ==
  [saving |-> [s EXCEPT !.tmp = write_chunk(s.tmp, df)], file |-> f]

\* the History that is saved holds up to MaxHistory records
InitSave ==
  /\ items \in UNION { [1..n -> {from_row(read_csv(<<GoodRow(i)>>)[1]) : i \in 1..MaxHistory}]
                         : n \in 0..MaxHistory }
  /\ undo = <<>>
  /\ redo = <<>>
  /\ file \in InitialFiles
  /\ autosave = FALSE
  /\ precision \in CfgPrecisions
  /\ now = 1
  /\ lastCmd = "init"
  /\ lastErr = "none"
  /\ lastMsg = NoMsg
  /\ lastRet = Ret(0)
  /\ pre = [items |-> <<>>, undo |-> <<>>, redo |-> <<>>]
  /\ saving = [Idle EXCEPT !.old = file]
  /\ repl = "none"
  /\ registry = EmptyRegistry
  /\ out = NoOut
  /\ call = NoCall

SaveFrame ==
  UNCHANGED <<items, undo, redo, autosave, precision, now, pre, repl, registry, out, call>>

\* save_csv enters _atomic_write: the temporary file is created
save_open ==
  /\ saving.pc = "idle"
  /\ saving' = [pc |-> "writing", tmp |-> NamedTemporaryFile, old |-> file]
  /\ UNCHANGED <<file, lastCmd, lastErr, lastMsg, lastRet>>
  /\ SaveFrame

\* df.to_csv writes the next chunk
save_write ==
  /\ saving.pc = "writing"
  /\ ~written(saving.tmp, to_dataframe(items))
  /\ LET r == to_csv(saving, file, to_dataframe(items))
     IN saving' = r.saving /\ file' = r.file
  /\ UNCHANGED <<lastCmd, lastErr, lastMsg, lastRet>>
  /\ SaveFrame

\* save_csv raises e: load_config raises ValueError or FileExistsError
\* before the try block is entered; inside it to_dataframe, os.makedirs or
\* NamedTemporaryFile raise before a temporary file exists, the write
\* raises (disk, permissions) and the temporary file stays as it is, or the
\* copy of shutil.move raises and the destination stays as far as it was
\* copied; each of these becomes HistoryError
save_fail(e) ==
  /\ saving.pc \in {"idle", "writing", "copying"}
  /\ e # "HistoryError" => saving.pc = "idle"
  /\ saving' = IF saving.pc = "idle"
                THEN [pc |-> "idle", tmp |-> NoFile, old |-> file]
                ELSE [saving EXCEPT !.pc = "idle"]
  /\ lastCmd' = "save"
  /\ lastErr' = e
  /\ lastMsg' = IF e = "HistoryError" THEN Msg("Failed to save history")
                ELSE load_config(e).msg
  /\ lastRet' = Ret(0)
  /\ UNCHANGED file
  /\ SaveFrame

\* shutil.move(tmp_path, path) whose os.rename succeeds: the temporary file
\* is in place
save_move ==
  /\ saving.pc = "writing"
  /\ written(saving.tmp, to_dataframe(items))
  /\ file' = saving.tmp
  /\ saving' = [saving EXCEPT !.pc = "idle", !.tmp = NoFile]
  /\ lastCmd' = "save"
  /\ lastErr' = "none"
  /\ lastMsg' = NoMsg
  /\ lastRet' = Ret(0)
  /\ SaveFrame

\* shutil.move(tmp_path, path) whose os.rename raises OSError: copy2 opens
\* the destination for writing, which empties it
save_move_copy ==
  /\ saving.pc = "writing"
  /\ written(saving.tmp, to_dataframe(items))
  /\ file' = [exists |-> TRUE, decode |-> "primary", header |-> <<>>, rows |-> <<>>]
  /\ saving' = [saving EXCEPT !.pc = "copying"]
  /\ UNCHANGED <<lastCmd, lastErr, lastMsg, lastRet>>
  /\ SaveFrame

\* copy2 copies the next chunk of the temporary file into the destination
save_copy ==
  /\ saving.pc = "copying"
  /\ file # saving.tmp
  /\ file' = IF file.header = <<>> THEN [file EXCEPT !.header = saving.tmp.header]
             ELSE [file EXCEPT !.rows = Append(file.rows, saving.tmp.rows[Len(file.rows) + 1])]
  /\ UNCHANGED <<saving, lastCmd, lastErr, lastMsg, lastRet>>
  /\ SaveFrame

\* the copy is complete: os.unlink(tmp_path), and save_csv returns
save_unlink ==
  /\ saving.pc = "copying"
  /\ file = saving.tmp
  /\ saving' = [saving EXCEPT !.pc = "idle", !.tmp = NoFile]
  /\ lastCmd' = "save"
  /\ lastErr' = "none"
  /\ lastMsg' = NoMsg
  /\ lastRet' = Ret(0)
  /\ UNCHANGED file
  /\ SaveFrame

\* the process is killed in the middle of a save
crash ==
  /\ saving.pc \in {"writing", "copying"}
  /\ saving' = [saving EXCEPT !.pc = "crashed"]
  /\ UNCHANGED <<file, lastCmd, lastErr, lastMsg, lastRet>>
  /\ SaveFrame

NextSave ==
  \/ save_open
  \/ save_write
  \/ \E e \in {"HistoryError", "ValueError", "FileExistsError"} : save_fail(e)
  \/ save_move
  \/ save_move_copy
  \/ save_copy
  \/ save_unlink
  \/ crash

SpecSave == InitSave /\ [][NextSave]_vars

----------------------------------------------------------------------------
(* The operation set called on its own: execute(name, a, b) for names as   *)
(* typed and floats drawn from a bounded set: whole numbers, decimals the   *)
(* double holds exactly (0.5, 1.5), decimals it does not (0.1, 0.3, 2.03)   *)
(* and nan.                                                                 *)

\* (name, a, b) triples passed to execute: the ten keys of the mapping with
\* every pair of operands, names typed with capitals or blanks around them and
\* unknown names, and the cases of the tests
OpInputs ==
  LET
      \* the ten keys of the mapping, as typed
      OperationNames ==
        { Word.add, Word.subtract, Word.multiply, Word.divide, Word.power, Word.root,
          Word.modulus, Word.int_divide, Word.percent, Word.abs_diff }
      \* names typed with capitals or blanks around them, and an unknown name
      OtherNames ==
        { <<" ", "A", "d", "d", " ">>,
          <<"D", "I", "V", "I", "D", "E">>,
          <<"P", "o", "w", "e", "r">>,
          <<" ", "r", "o", "o", "t">>,
          <<"a", "b", "s", "_", "d", "i", "f", "f", " ">>,
          <<"\t", "M", "o", "d", "u", "l", "u", "s", "\n">>,
          <<"a", "d", " ", "d">>,
          <<"\\x0b", "a", "d", "d">>,
          <<"\\xa0", "P", "o", "w", "e", "r", "\\u2003">>,
          <<"Ä", "D", "D">>,
          Word.sqrt }
      OperandsA == {Dec(-100), Dec(0), Dec(100), Dec(200), Dec(30), Dec(150), NaN}
      OperandsB == {Dec(-200), Dec(-100), Dec(0), Dec(50), Dec(100), Dec(200), Dec(300),
                    Dec(10), Dec(150), NaN}
  IN
  (OperationNames \X OperandsA \X OperandsB)
    \cup (OtherNames \X {Dec(900)} \X {Dec(200)})
    \cup { <<Word.root, Dec(-2700), Dec(300)>>,    \* test_root_ok_odd
           <<Word.root, Dec(-800), Dec(300)>>,
           <<Word.root, Dec(-800), Dec(200)>>,     \* even root of a negative base
           <<Word.root, Dec(-3200), Dec(500)>>,
           <<Word.root, Dec(-2700), Dec(-300)>>,
           <<Word.root, Dec(-1000), Dec(300)>>,    \* not a perfect cube
           <<Word.root, Dec(-1000), Dec(500)>>,
           <<Word.root, Dec(-1000), Dec(-300)>>,
           <<Word.root, Dec(-50), Dec(300)>>,
           <<Word.root, Dec(-200), Dec(-100)>>,    \* -(2 ** -1.0)
           <<Word.root, MinDouble(-1), Dec(-100)>>,  \* -5e-324, -1: OverflowError
           <<Word.root, MinDouble(-1), Dec(100)>>,
           <<Word.root, MinDouble(-1), Dec(200)>>,
           <<Word.root, MinDouble(1), Dec(-100)>>,
           <<Word.power, MinDouble(1), Dec(-100)>>,
           <<Word.root, Dec(-800), Dec(150)>>,     \* index 1.5
           <<Word.root, Dec(900), Dec(-50)>>,      \* 9 ** (1 / -0.5)
           <<Word.root, Dec(2700), Dec(300)>>,
           <<Word.power, Dec(-800), Dec(50)>>,     \* (-8) ** 0.5
           <<Word.power, Dec(400), Dec(-50)>>,     \* 4 ** -0.5
           <<Word.power, Dec(50), Dec(50)>>,       \* 0.5 ** 0.5
           <<Word.power, Dec(200), Dec(10000)>>,   \* 2 ** 100
           <<Word.power, Dec(-800), Dec(34150)>>,  \* (-8) ** 341.5: OverflowError
           <<Word.power, Dec(800), Dec(34150)>>,   \* 8 ** 341.5: OverflowError
           <<Word.power, Dec(-800), Dec(-34150)>>, \* (-8) ** -341.5: complex
           <<Word.root, Dec(1000000), Dec(1)>>,    \* 10000 ** (1 / 0.01): OverflowError
           <<Word.divide, Dec(700), Dec(200)>>,
           <<Word.divide, Dec(203), Dec(200)>>,
           <<Word.modulus, Dec(-700), Dec(300)>>,
           <<Word.modulus, Dec(750), Dec(-200)>>,
           <<Word.int_divide, Dec(-700), Dec(200)>>,
           <<Word.int_divide, Dec(600), Dec(10)>>,  \* 6.0 // 0.1
           <<Word.int_divide, Dec(100), Dec(30)>>,
           <<Word.percent, Dec(100), Dec(400)>>,
           <<Word.abs_diff, Dec(200), Dec(500)>>,
           <<Word.add, Dec(200), Dec(300)>>,        \* test_basic_ops
           <<Word.subtract, Dec(500), Dec(200)>>,
           <<Word.multiply, Dec(300), Dec(400)>>,
           <<Word.divide, Dec(900), Dec(300)>>,
           <<Word.power, Dec(200), Dec(500)>>,
           <<Word.modulus, Dec(1000), Dec(400)>>,
           <<Word.int_divide, Dec(1000), Dec(300)>>,
           <<Word.percent, Dec(2500), Dec(10000)>>,
           <<Word.abs_diff, Dec(500), Dec(1100)>>,
           <<<<"u", "n", "k", "n", "o", "w", "n", "-", "o", "p">>, Dec(100), Dec(100)>> }

Pending == Raise("pending", "")

InitCall(calls) ==
  /\ items = <<>>
  /\ undo = <<>>
  /\ redo = <<>>
  /\ file = NoFile
  /\ autosave = FALSE
  /\ precision \in CfgPrecisions
  /\ now = 1
  /\ lastCmd = "init"
  /\ lastErr = "none"
  /\ lastMsg = NoMsg
  /\ lastRet = Ret(0)
  /\ pre = [items |-> <<>>, undo |-> <<>>, redo |-> <<>>]
  /\ saving = Idle
  /\ repl = "none"
  /\ registry = EmptyRegistry
  /\ out = NoOut
  /\ call \in calls

CallFrame ==
  UNCHANGED <<items, undo, redo, file, autosave, precision, now,
              lastCmd, lastErr, lastMsg, lastRet, pre, saving, repl, registry, out>>

InitOps ==
  InitCall({[name |-> "execute", args |-> t, result |-> Pending] : t \in OpInputs})

\* OperationFactory.create(name).execute(a, b)
call_execute ==
  /\ call.name = "execute"
  /\ call.result = Pending
  /\ call' = [call EXCEPT !.result = execute(call.args[1], call.args[2], call.args[3])]
  /\ CallFrame

NextOps == call_execute

SpecOps == InitOps /\ [][NextOps]_vars

----------------------------------------------------------------------------
(* The runtime precision: sessions configured with a precision of 0..18    *)
(* (CALCULATOR_PRECISION), in which set_precision is given every integer    *)
(* around the two limits.                                                   *)

\* values passed to cmd_set_precision, on both sides of each limit
PrecisionArgs == {-2, -1, 0, 1, 2, 17, 18, 19, 20}

\* calculations of these sessions: 1 / 4 rounds to 0, 0.2 or 0.25, and 1 / 3
\* to 0, 0.3, 0.333333 or a double with 16 threes
PrecisionCalcInputs ==
  CalcInputs \cup { <<Word.divide, Dec(100), Dec(400)>>, <<Word.divide, Dec(100), Dec(300)>> }

InitPrecision ==
  /\ items = <<>>
  /\ undo = <<>>
  /\ redo = <<>>
  /\ file = NoFile
  /\ autosave = FALSE
  /\ precision \in {0, 6, 18}   \* configured: the lowest, the default, the highest
  /\ now = 1
  /\ lastCmd = "init"
  /\ lastErr = "none"
  /\ lastMsg = NoMsg
  /\ lastRet = Ret(0)
  /\ pre = [items |-> <<>>, undo |-> <<>>, redo |-> <<>>]
  /\ saving = Idle
  /\ repl = "none"
  /\ registry = EmptyRegistry
  /\ out = NoOut
  /\ call = NoCall

NextPrecision ==
  \/ \E n \in PrecisionArgs : cmd_set_precision(n)
  \/ cmd_get_precision
  \/ \E c \in PrecisionCalcInputs : calculate(c[1], c[2], c[3], "ok")
  \/ cmd_clear
  \/ cmd_undo
  \/ cmd_redo

SpecPrecision == InitPrecision /\ [][NextPrecision]_vars

----------------------------------------------------------------------------
(* Operand parsing (src/app/input_validators.py).  A token is the text of   *)
(* one operand; float(token) gives a finite double, an infinity, a NaN, or  *)
(* raises ValueError.                                                       *)

\* CALCULATOR_MAX_INPUT_VALUE as the validation tests set it, in hundredths
max_input_value == 42 * Scale

\* the tokens "<v/Scale>", "nan", "inf", "-inf", a non-numeric word, and a
\* superscript digit ("²"), which str.isdigit accepts and int and float reject
NumTok(v) == [kind |-> "num", v |-> v]
NanTok == [kind |-> "nan", v |-> 0]
InfTok(sign) == [kind |-> "inf", v |-> sign]
WordTok == [kind |-> "word", v |-> 0]
SuperscriptTok == [kind |-> "superscript", v |-> 0]

\* float(token): the double, or ValueError
float(tok) ==
  CASE tok.kind = "num" -> [err |-> "none", val |-> Dec(tok.v)]
    [] tok.kind = "nan" -> [err |-> "none", val |-> NaN]
    [] tok.kind = "inf" -> [err |-> "none", val |-> Infinity(tok.v)]
    [] tok.kind \in {"word", "superscript"} -> [err |-> "ValueError", val |-> NaN]

\* abs(x) > m for a double x and a limit of m hundredths: false whenever x
\* is a NaN
AbsGreater(x, m) ==
  CASE x.cls = "finite" -> Greater(AbsOf(x), Dec(m))
    [] x.cls = "inf" -> TRUE
    [] x.cls = "nan" -> FALSE

Rejected(text) == [err |-> "ValidationError", kind |-> text, a |-> NaN, b |-> NaN]

\* parse_two_numbers in the environment env: the count of the tokens and
\* their conversion first, then load_config(), outside any try, whose
\* exception leaves the function as it is, then the test of the magnitudes
parse_two_numbers(tokens, env) ==
  IF Len(tokens) # 2 THEN Rejected("Exactly two operands required.")
  ELSE LET a == float(tokens[1])
           b == float(tokens[2])
           cfg == load_config(env)
       IN IF a.err # "none" \/ b.err # "none"
            THEN Rejected("Operands must be numeric.")
          ELSE IF cfg.err # "none"
            THEN [err |-> cfg.err, kind |-> cfg.msg.kind, a |-> NaN, b |-> NaN]
          ELSE IF \E v \in {a.val, b.val} : AbsGreater(v, max_input_value)
            THEN Rejected("Operand exceeds maximum allowed value.")
          ELSE [err |-> "none", kind |-> "", a |-> a.val, b |-> b.val]

\* token lists of zero to three tokens; the operand tokens are the values
\* around the limit, zero, and the special texts
TokenLists ==
  LET Tokens ==
        { NumTok(v) : v \in {-max_input_value - 1, -max_input_value, 0,
                             max_input_value, max_input_value + 1} }
          \cup {NanTok, InfTok(1), InfTok(-1), WordTok, SuperscriptTok}
  IN {<<>>} \cup {<<s>> : s \in Tokens}
       \cup {<<s, t>> : s \in Tokens, t \in Tokens}
       \cup {<<s, t, WordTok>> : s \in Tokens, t \in {NumTok(0), WordTok}}

InitParse ==
  InitCall({[name |-> "parse_two_numbers", args |-> <<t, env>>, result |-> Pending]
              : t \in TokenLists, env \in {"ok", "ValueError", "FileExistsError"}})

call_parse_two_numbers ==
  /\ call.name = "parse_two_numbers"
  /\ call.result = Pending
  /\ call' = [call EXCEPT !.result = parse_two_numbers(call.args[1], call.args[2])]
  /\ CallFrame

NextParse == call_parse_two_numbers

SpecParse == InitParse /\ [][NextParse]_vars

----------------------------------------------------------------------------
(* Command registry (src/app/command_registry.py) *)

\* command(name, help, aliases): the registry after the decorator has run;
\* the spec of the name is replaced, each alias is overwritten, nothing is
\* removed
command(reg, name, aliases) ==
  [specs |-> {sp \in reg.specs : sp.name # name}
               \cup {[name |-> name, aliases |-> aliases]},
   alias_to_name |-> {p \in reg.alias_to_name : p[1] \notin Range(aliases)}
                       \cup {<<al, name>> : al \in Range(aliases)}]

\* _registry.get(name) is not None
registered(reg, name) == \E sp \in reg.specs : sp.name = name

\* resolve(name): the registered name behind a name or an alias, "" if none
resolve(reg, name) ==
  LET canonical == IF \E p \in reg.alias_to_name : p[1] = name
                     THEN (CHOOSE p \in reg.alias_to_name : p[1] = name)[2]
                     ELSE name
  IN IF registered(reg, canonical) THEN canonical ELSE ""

\* all_specs(): the names of the registered specs (the list is sorted by name)
all_specs(reg) == {sp.name : sp \in reg.specs}

\* aliases_for(name): the aliases the spec of the name was registered with
aliases_for(reg, name) ==
  IF registered(reg, name)
    THEN (CHOOSE sp \in reg.specs : sp.name = name).aliases
    ELSE <<>>

----------------------------------------------------------------------------
(* The REPL (main of src/app/calculator.py): one action per line read.     *)

COMMANDS ==
  mapping \cup {"history", "clear", "undo", "redo", "save", "load",
                "help", "exit", "autosave", "precision"}

\* ALIASES.get(word, word)
ALIASES(word) ==
  LET key == Str(word)
  IN CASE key = "+" -> Word.add
       [] key = "-" -> Word.subtract
       [] key = "*" -> Word.multiply
       [] key = "/" -> Word.divide
       [] key = "//" -> Word.int_divide
       [] key = "%" -> Word.modulus
       [] key = "^" -> Word.power
       [] key = "quit" -> Word.exit
       [] OTHER -> word

\* _help(): the names and aliases the help text lists
_help ==
  [kind |-> "help",
   names |-> COMMANDS \cup {"quit", "+", "-", "*", "/", "//", "%", "^"},
   recs |-> <<>>]

\* str.isdigit on a token: the text of a whole number without sign, or a
\* text of digits that are not decimal digits
isdigit(tok) ==
  \/ tok.kind = "num" /\ tok.v >= 0 /\ tok.v % Scale = 0
  \/ tok.kind = "superscript"

\* int(token): the integer, or ValueError
int(tok) ==
  IF tok.kind = "num" /\ tok.v % Scale = 0
    THEN [err |-> "none", val |-> tok.v \div Scale]
    ELSE [err |-> "ValueError", val |-> 0]

\* its[-limit:]
LastSlice(its, limit) ==
  IF limit = 0 \/ limit >= Len(its) THEN its
  ELSE SubSeq(its, Len(its) - limit + 1, Len(its))

\* a line that main handles without a state-changing call of the facade:
\* its outcome is printed, or the exception e handled
line_result(cmd, e, text, output) ==
  /\ repl = "running"
  /\ lastCmd' = cmd
  /\ lastErr' = e
  /\ lastMsg' = IF e = "none" THEN NoMsg ELSE Msg(text)
  /\ lastRet' = Ret(0)
  /\ pre' = Pre
  /\ repl' = main_except(repl, e)
  /\ out' = IF e = "none" THEN output ELSE main_print(repl, e)
  /\ UNCHANGED <<items, undo, redo, file, autosave, precision, now,
                 saving, registry, call>>

\* "exit" or "quit": Bye! and break
line_exit(word) ==
  /\ repl = "running"
  /\ Str(ALIASES(lower(word))) \in {"exit", "quit"}
  /\ lastCmd' = "exit"
  /\ lastErr' = "none"
  /\ lastMsg' = NoMsg
  /\ lastRet' = Ret(0)
  /\ pre' = Pre
  /\ repl' = "ended"
  /\ out' = [NoOut EXCEPT !.kind = "Bye!"]
  /\ UNCHANGED <<items, undo, redo, file, autosave, precision, now,
                 saving, registry, call>>

\* input() raises EOFError (end of input) or KeyboardInterrupt
line_input_raises(e) ==
  line_result("input", e, "", NoOut)

\* "help"
line_help ==
  line_result("help", "none", "", _help)

\* "history [N]"
line_history(args) ==
  LET limited == args # <<>> /\ isdigit(args[1])
      limit == IF limited THEN int(args[1]).val ELSE 0
      shown == IF limited THEN LastSlice(items, limit) ELSE items
  IN IF limited /\ int(args[1]).err # "none"
       THEN line_result("history", int(args[1]).err,
                        "invalid literal for int() with base 10", NoOut)
       ELSE line_result("history", "none", "",
                        [kind |-> IF shown = <<>> THEN "(history is empty)" ELSE "history",
                         names |-> {}, recs |-> shown])

\* "autosave [word]"
line_autosave(args) ==
  /\ repl = "running"
  /\ IF args = <<>>
       THEN line_result("autosave", "none", "",
                        [kind |-> IF is_enabled THEN "ON" ELSE "OFF",
                         names |-> {}, recs |-> <<>>])
       ELSE set_enabled(Str(lower(args[1])) \in {"1", "true", "yes", "on", "y"})

\* "precision [N]"
line_precision(args) ==
  /\ repl = "running"
  /\ IF args = <<>> THEN cmd_get_precision
     ELSE IF int(args[1]).err # "none"
       THEN line_result("precision", "ValidationError",
                        "Precision must be an integer.", NoOut)
     ELSE cmd_set_precision(int(args[1]).val)

\* any other line: the operation path, with the unknown-name test first,
\* then parse_two_numbers, whose exception (a ValidationError, or the one of
\* load_config) is handled by main before the facade is called
line_operation(word, args, env) ==
  /\ repl = "running"
  /\ LET cmd == ALIASES(lower(word))
         parsed == parse_two_numbers(args, env)
     IN /\ Str(cmd) \notin (COMMANDS \ mapping) \cup {"quit"}
        /\ IF Str(cmd) \notin mapping
             THEN line_result(Str(cmd), "OperationError", "Unknown operation", NoOut)
           ELSE IF parsed.err # "none"
             THEN line_result(Str(cmd), parsed.err, parsed.kind, NoOut)
           ELSE calculate(cmd, parsed.a, parsed.b, env)

\* files a session may find at cfg.history_file
ReplFiles == {NoFile, GoodFile(1, "primary")}

\* lines of the operation path
OperationLines ==
  { <<<<"+">>, <<NumTok(Scale), NumTok(2 * Scale)>>>>,
    <<Word.divide, <<NumTok(Scale), NumTok(0)>>>>,
    <<Word.add, <<NumTok(Scale)>>>>,
    <<Word.add, <<WordTok, NumTok(Scale)>>>>,
    <<Word.add, <<NumTok(max_input_value + 1), NumTok(0)>>>>,
    <<<<"a", "d">>, <<NumTok(Scale), NumTok(2 * Scale)>>>>,
    <<<<"e", "c", "h", "o">>, <<WordTok, WordTok>>>>,
    <<<<"s", "a", "y">>, <<NumTok(Scale)>>>> }

\* "history", "history 0", "history 1", "history -5", "history ²"
HistoryArgs ==
  {<<>>, <<NumTok(0)>>, <<NumTok(Scale)>>, <<NumTok(-5 * Scale)>>, <<SuperscriptTok>>}

\* "autosave", "autosave OFF", "autosave on", "autosave ON"
AutosaveArgs == {<<>>, << <<"O", "F", "F">> >>, << <<"o", "n">> >>, << <<"O", "N">> >>}

InitRepl ==
  /\ items = <<>>
  /\ undo = <<>>
  /\ redo = <<>>
  /\ file = NoFile             \* a fresh history directory; save and autosave write the file
  /\ autosave \in BOOLEAN     \* CALCULATOR_AUTO_SAVE, true by default
  /\ precision \in CfgPrecisions
  /\ now = 1
  /\ lastCmd = "init"
  /\ lastErr = "none"
  /\ lastMsg = NoMsg
  /\ lastRet = Ret(0)
  /\ pre = [items |-> <<>>, undo |-> <<>>, redo |-> <<>>]
  /\ saving = Idle
  /\ repl = "running"
  /\ registry \in {EmptyRegistry, command(EmptyRegistry, "echo", <<"say">>)}
  /\ out = NoOut
  /\ call = NoCall

NextRepl ==
  \/ \E word \in {Word.exit, <<"Q", "u", "i", "t">>} : line_exit(word)
  \/ \E e \in {"EOFError", "KeyboardInterrupt"} : line_input_raises(e)
  \/ line_help
  \/ \E args \in HistoryArgs : line_history(args)
  \/ repl = "running" /\ cmd_clear
  \/ repl = "running" /\ cmd_undo
  \/ repl = "running" /\ cmd_redo
  \/ repl = "running" /\ \E env \in {"ok", "OSError"} : cmd_save(env)
  \/ repl = "running" /\ cmd_load("ok")
  \/ \E args \in AutosaveArgs : line_autosave(args)
  \/ \E args \in {<<>>, <<NumTok(2 * Scale)>>, <<NumTok(19 * Scale)>>, <<WordTok>>} :
       line_precision(args)
  \* a failing write matters only to a line that calculates, a failing
  \* configuration to a line whose operands convert
  \/ \E l \in OperationLines, env \in {"ok", "OSError", "ValueError"} :
       /\ env = "OSError" => l[1] = <<"+">>
       /\ env = "ValueError" => l[1] \in {<<"+">>, Word.divide}
       /\ line_operation(l[1], l[2], env)

SpecRepl == InitRepl /\ [][NextRepl]_vars

----------------------------------------------------------------------------
(* The REPL fed with the lines of the scripts of src/tests/test_cli_repl.py *)
(* in any order, in the isolated directory of the tests: no history file,   *)
(* no registered command, CALCULATOR_AUTO_SAVE=false.                       *)

InitScript ==
  /\ items = <<>>
  /\ undo = <<>>
  /\ redo = <<>>
  /\ file = NoFile
  /\ autosave = FALSE
  /\ precision = 6
  /\ now = 1
  /\ lastCmd = "init"
  /\ lastErr = "none"
  /\ lastMsg = NoMsg
  /\ lastRet = Ret(0)
  /\ pre = [items |-> <<>>, undo |-> <<>>, redo |-> <<>>]
  /\ saving = Idle
  /\ repl = "running"
  /\ registry = EmptyRegistry
  /\ out = NoOut
  /\ call = NoCall

NextScript ==
  \/ \E word \in {Word.exit, <<"E", "X", "I", "T">>} : line_exit(word)
  \/ \E e \in {"EOFError", "KeyboardInterrupt"} : line_input_raises(e)
  \/ line_help
  \/ \E args \in {<<>>, <<NumTok(Scale)>>, <<NumTok(-5 * Scale)>>} :
       line_history(args)      \* "history", "history 1", "history -5"
  \/ repl = "running" /\ cmd_undo
  \/ repl = "running" /\ \E env \in {"ok", "CopyError"} : cmd_save(env)
  \/ repl = "running" /\ cmd_load("ok")
  \/ \E args \in AutosaveArgs : line_autosave(args)
  \/ \E args \in {<<>>, <<NumTok(2 * Scale)>>, <<WordTok>>} :
       line_precision(args)    \* "precision", "precision 2", "precision nope"
  \* the operation lines of the two scripts, and a line with a nan operand;
  \* a failing write matters only to a line that calculates, a failing
  \* configuration to a line whose operands convert
  \/ \E l \in
    { <<Word.add, <<NumTok(2 * Scale), NumTok(3 * Scale)>>>>,
      <<Word.divide, <<NumTok(Scale), NumTok(3 * Scale)>>>>,
      <<<<"+">>, <<NumTok(Scale), NumTok(2 * Scale)>>>>,
      <<<<"^">>, <<NumTok(2 * Scale), NumTok(4 * Scale)>>>>,
      <<<<"%">>, <<NumTok(10 * Scale), NumTok(3 * Scale)>>>>,
      <<<<"/", "/">>, <<NumTok(7 * Scale), NumTok(2 * Scale)>>>>,
      <<<<"u", "n", "k", "n", "o", "w", "n", "c", "m", "d">>, <<>>>>,
      <<Word.divide, <<NumTok(Scale), NumTok(0)>>>>,
      <<<<"A", "d", "d">>, <<NanTok, NumTok(Scale)>>>> },
       env \in {"ok", "OSError", "ValueError"} :
         /\ env = "OSError" => l[1] = Word.add
         /\ env = "ValueError" => l[1] \in {<<"+">>, Word.divide}
         /\ line_operation(l[1], l[2], env)

SpecScript == InitScript /\ [][NextScript]_vars

----------------------------------------------------------------------------
(* Undo and redo over whole sessions: a fresh Calculator with autosave off *)
(* that is given mutating commands, undos and redos, and whose Caretaker   *)
(* may be cleared directly (calc.caretaker.clear()).                        *)

InitUndo ==
  /\ items = <<>>
  /\ undo = <<>>
  /\ redo = <<>>
  /\ file \in ReplFiles
  /\ autosave = FALSE
  /\ precision \in CfgPrecisions
  /\ now = 1
  /\ lastCmd = "init"
  /\ lastErr = "none"
  /\ lastMsg = NoMsg
  /\ lastRet = Ret(0)
  /\ pre = [items |-> <<>>, undo |-> <<>>, redo |-> <<>>]
  /\ saving = Idle
  /\ repl = "none"
  /\ registry = EmptyRegistry
  /\ out = NoOut
  /\ call = NoCall

\* calc.caretaker.clear()
caretaker_clear ==
  /\ LET ct == Caretaker_clear(undo, redo)
     IN undo' = ct.undo /\ redo' = ct.redo
  /\ lastCmd' = "caretaker_clear"
  /\ lastErr' = "none"
  /\ lastMsg' = NoMsg
  /\ lastRet' = Ret(0)
  /\ pre' = Pre
  /\ UNCHANGED <<items, file, autosave, precision, now>>
  /\ FacadeFrame

NextUndo ==
  \/ \E c \in CalcInputs : calculate(c[1], c[2], c[3], "ok")
  \/ cmd_clear
  \/ \E env \in {"ok", "FileExistsError"} : cmd_load(env)
  \/ cmd_undo
  \/ cmd_redo
  \/ caretaker_clear

SpecUndo == InitUndo /\ [][NextUndo]_vars

----------------------------------------------------------------------------
(* Properties *)

Mutating == {"calculate", "clear", "load"}

\* C1: in every reachable state the number of records held by History is at
\* most the capacity the History was created with.
C1_LengthWithinCapacity == Len(items) <= MaxHistory

\* C2: add(r) on a History holding n <= C records yields the old sequence
\* followed by r when n < C, and the old sequence without its first record
\* followed by r when n = C (a calculation that reads the clock is the one
\* that reaches History.add).
C2_AddEvictsOldest ==
  [][ (lastCmd' = "calculate" /\ now' = now + 1 /\ Len(items) <= MaxHistory)
        => LET r == Last(items')
           IN /\ items' # <<>>
              /\ r.timestamp = now
              /\ \E c \in CalcInputs :
                   r.operation = Str(c[1]) /\ r.a = c[2] /\ r.b = c[3]
              /\ items' = IF Len(items) < MaxHistory
                            THEN Append(items, r)
                            ELSE Append(Tail(items), r) ]_vars

\* C2 witness: a calculation on a full History evicted exactly the oldest
\* record and put the new one last.
C2_Witness ==
  /\ lastCmd = "calculate"
  /\ Len(pre.items) = MaxHistory
  /\ Len(items) = MaxHistory
  /\ Front(items) = Tail(pre.items)
  /\ Last(items).timestamp = now - 1
  /\ pre.items[1] \notin Range(items)

\* C3: an undo issued right after a successful calculate, clear or load
\* succeeds and leaves History equal to the contents before that command.
C3_UndoRestoresPreMutation ==
  [][ (lastCmd \in Mutating /\ lastErr = "none" /\ lastCmd' = "undo")
        => (lastErr' = "none" /\ items' = pre.items) ]_vars

\* C3 witness: an undo has put back, in first position, the record that an
\* evicting calculation had dropped.
C3_Witness ==
  /\ lastCmd = "undo"
  /\ lastErr = "none"
  /\ Len(items) = MaxHistory
  /\ Len(pre.items) = MaxHistory
  /\ Tail(items) = Front(pre.items)
  /\ items[1] \notin Range(pre.items)
  /\ Last(pre.items) \notin Range(items)

\* C4: a redo issued right after a successful undo succeeds, leaves History
\* equal to the contents before the undo, and leaves both stacks as they were
\* before the undo.
C4_RedoInvertsUndo ==
  [][ (lastCmd = "undo" /\ lastErr = "none" /\ lastCmd' = "redo")
        => /\ lastErr' = "none"
           /\ items' = pre.items
           /\ undo' = pre.undo
           /\ redo' = pre.redo ]_vars

\* C4 witness: a redo succeeded on a non-empty undo stack and brought back a
\* non-empty History different from the one it replaced.
C4_Witness ==
  /\ lastCmd = "redo"
  /\ lastErr = "none"
  /\ items # <<>>
  /\ items # pre.items
  /\ Len(undo) = MaxUndo

\* C5: after a successful calculate, clear or load the redo stack is empty,
\* and a redo issued next fails.
C5_MutationClearsRedo ==
  [][ /\ (lastCmd' \in Mutating /\ lastErr' = "none") => redo' = <<>>
      /\ (lastCmd \in Mutating /\ lastErr = "none" /\ lastCmd' = "redo")
           => lastErr' # "none" ]_vars

\* C5 witness: a calculation succeeded while the redo stack held a snapshot
\* (a change made after an undo), and the redo stack is now empty.
C5_Witness ==
  /\ lastCmd = "calculate"
  /\ lastErr = "none"
  /\ pre.redo # <<>>
  /\ redo = <<>>

\* C6: undo with an empty undo stack fails, redo with an empty redo stack
\* fails, and either leaves History and both stacks as they were.
C6_EmptyStackFailsUnchanged ==
  [][ ((lastCmd' = "undo" /\ undo = <<>>) \/ (lastCmd' = "redo" /\ redo = <<>>))
        => (lastErr' # "none" /\ UNCHANGED <<items, undo, redo>>) ]_vars

\* C6 witness: a redo failed on an empty redo stack while History and the
\* undo stack were not empty.
C6_Witness ==
  /\ lastCmd = "redo"
  /\ lastErr # "none"
  /\ redo = <<>>
  /\ items # <<>>
  /\ undo # <<>>

\* C7: when the facade's undo or redo has nothing to undo or redo, the error
\* that reaches the caller is a HistoryError.
C7_NothingToUndoIsHistoryError ==
  (lastCmd \in {"undo", "redo"} /\ lastErr # "none") => lastErr = "HistoryError"

\* C8: for every History content, the empty one included, a load right after
\* a successful save succeeds, returns the number of records saved and leaves
\* History holding the same records in the same order.
C8_RoundTripAnyLength ==
  [][ (lastCmd = "save" /\ lastErr = "none" /\ lastCmd' = "load")
        => (lastErr' = "none" /\ lastRet' = Ret(Len(items)) /\ items' = items) ]_vars

\* C9: a successful load leaves History holding exactly the rows of the
\* file, in file row order, and returns the number of rows.
C9_LoadReplaces ==
  [][ (lastCmd' = "load" /\ lastErr' = "none")
        => /\ Len(items') = Len(file.rows)
           /\ lastRet' = Ret(Len(file.rows))
           /\ \A i \in 1..Len(file.rows) :
                /\ items'[i].operation = file.rows[i].operation
                /\ items'[i].a = read_cell(file.rows[i].a).val
                /\ items'[i].b = read_cell(file.rows[i].b).val
                /\ items'[i].result = read_cell(file.rows[i].result).val
                /\ items'[i].timestamp = file.rows[i].timestamp ]_vars

\* C9 witness: a load succeeded on a History that held a record of the
\* session, and that record, not being a row of the file, is gone.
C9_Witness ==
  /\ lastCmd = "load"
  /\ lastErr = "none"
  /\ pre.items # <<>>
  /\ items # <<>>
  /\ \A i \in 1..Len(pre.items) : pre.items[i] \notin Range(items)

\* the conditions of C10 on the file.  A value is a number when float() of
\* its text is one: a numeral, or inf, infinity or nan behind an optional
\* sign, in any case of the letters.
NotFound(f) == ~f.exists
EmptyTable(f) == f.exists /\ (f.header = <<>> \/ f.rows = <<>>)
MissingColumns(f) == f.exists /\ required \ Range(f.header) # {}
IsNumber(c) ==
  LET t == c.text
      body == IF t # <<>> /\ t[1] \in {"-", "+"} THEN Tail(t) ELSE t
  IN \/ c.kind = "repr"
     \/ read_cell(c).type = "float"
     \/ Str(lower(body)) \in {"inf", "infinity", "nan"}
BadTypes(f) ==
  /\ f.exists
  /\ \E i \in 1..Len(f.rows) :
       \E c \in {"a", "b", "result"} \cap Range(f.header) : ~IsNumber(f.rows[i][c])

\* C10: load fails, with a HistoryError, exactly when the file does not
\* exist, or has no header or no data rows, or lacks a required column, or
\* holds a value of a, b or result that is not a number; the message is that
\* of a condition that holds, and a "missing columns" message names exactly
\* the missing columns.
C10_FailsOnFourConditions ==
  [][ lastCmd' = "load"
        => /\ (lastErr' # "none")
                <=> (NotFound(file) \/ EmptyTable(file) \/ MissingColumns(file)
                       \/ BadTypes(file))
           /\ lastErr' \in {"none", "HistoryError"}
           /\ lastErr' = "HistoryError"
                => \/ NotFound(file) /\ lastMsg' = Msg("History file not found.")
                   \/ EmptyTable(file) /\ lastMsg' = Msg("History file is empty.")
                   \/ /\ MissingColumns(file)
                      /\ lastMsg' = [kind |-> "missing columns",
                                     cols |-> required \ Range(file.header)]
                   \/ BadTypes(file) /\ lastMsg' = Msg("invalid data types") ]_vars

\* C11: at every instant of a save, a crash included, the destination file
\* holds its complete previous content or the complete new content; the new
\* content is first written completely to a temporary file and only then
\* moved over the destination.
C11_SaveIsAtomic ==
  /\ [](file = saving.old \/ IsTableOf(file, items))
  /\ [][file' # file => (IsTableOf(saving.tmp, items) /\ file' = saving.tmp)]_vars

\* the operation and operands of a finished call of execute
Executed == call.name = "execute" /\ call.result # Pending
OpOf == Str(strip_lower(call.args[1]))
ArgA == call.args[2]
ArgB == call.args[3]

\* C12: execute fails with an OperationError exactly when the operation is
\* divide, modulus, int_divide or percent and b = 0, or is root and b = 0, or
\* is root with a < 0 and b a non-integer or an even integer; for every other
\* operand pair it returns a number and raises no error of any kind.
C12_OnlyOperationErrors ==
  (Executed /\ OpOf \in mapping /\ call.result.kind # "unmodelled") =>
    LET fails ==
          \/ OpOf \in {"divide", "modulus", "int_divide", "percent"} /\ IsZero(ArgB)
          \/ OpOf = "root" /\ IsZero(ArgB)
          \/ OpOf = "root" /\ IsNegative(ArgA)
               /\ (~is_integer(ArgB) \/ ArgB.num % 2 = 0)
    IN IF fails THEN call.result.err = "OperationError"
       ELSE call.result.err = "none" /\ call.result.kind = "real"

\* C13: for a negative base a and an odd integer index n, execute("root", a,
\* n) returns a real r that is negative and whose magnitude is the n-th root
\* of |a|: |r|^n = |a|.  For a rational root the equality is that of the
\* numbers the doubles stand for (the double returned is within rounding
\* error of the root); for an irrational root the bracket the model computes
\* for |r| holds the root; the smallest double is its own first root.
C13_OddRootOfNegative ==
  (Executed /\ OpOf = "root" /\ ArgA.cls \in {"finite", "min"} /\ ArgA.num < 0
     /\ is_integer(ArgB) /\ ArgB.num % 2 = 1)
    => LET n == ArgB.num
           k == Abs(n)
           r == call.result
           \* |r|^k = p / q
           p == IF n > 0 THEN -ArgA.num ELSE ArgA.den
           q == IF n > 0 THEN ArgA.den ELSE -ArgA.num
           \* the integer part of p * den^k / q, for a bracket lo/den..hi/den
           w == (p * Pow(r.val.den, k)) \div q
       IN /\ r.err = "none"
          /\ r.kind = "real"
          /\ r.val.cls \in {"finite", "between", "min"}
          /\ r.val.num < 0
          /\ r.val.cls = "finite" =>
               /\ ArgA.cls = "finite"
               /\ Pow(-r.val.num, k) = p
               /\ Pow(r.val.den, k) = q
          /\ r.val.cls = "between" =>
               /\ ArgA.cls = "finite"
               /\ CapPow(-r.val.num - 1, k, w) <= w
               /\ CapPow(-r.val.num, k, w) >= w
          /\ r.val.cls = "min" => (ArgA.cls = "min" /\ n = 1)

\* C15: set_precision(n) fails with a ValidationError for n < 0 or n > 18
\* and leaves the precision unchanged; for 0 <= n <= 18 it sets the precision
\* to n and returns n.  The precision stays within 0..18, no other command
\* changes it, and get_precision returns it.
C15_PrecisionWithinRange ==
  /\ [](precision \in 0..18)
  /\ [][\A n \in PrecisionArgs :
          cmd_set_precision(n) =>
            IF n < 0 \/ n > 18
              THEN lastErr' = "ValidationError" /\ precision' = precision
              ELSE lastErr' = "none" /\ precision' = n /\ lastRet' = Ret(n)]_vars
  /\ [][precision' # precision =>
          (lastCmd' = "set_precision" /\ lastErr' = "none"
             /\ lastRet' = Ret(precision'))]_vars
  /\ [][lastCmd' = "get_precision" =>
          (lastErr' = "none" /\ lastRet' = Ret(precision) /\ precision' = precision)]_vars

\* C15 witness: set_precision has been refused in a session that holds a
\* record and whose precision is at the upper limit.
C15_Witness ==
  /\ lastCmd = "set_precision"
  /\ lastErr = "ValidationError"
  /\ precision = 18
  /\ items # <<>>

\* C16: a successful calculate made while autosave is enabled leaves the
\* persisted file holding exactly the records of History, in order, under
\* the header operation,a,b,result,timestamp; made while autosave is
\* disabled it leaves the file unchanged; set_enabled(v) makes is_enabled
\* return v, and calculate does not change the flag.
C16_AutosaveFollowsFlag ==
  /\ [][(lastCmd' = "calculate" /\ lastErr' = "none") =>
          /\ is_enabled' = is_enabled
          /\ IF is_enabled THEN IsTableOf(file', items') ELSE file' = file]_vars
  /\ [][\A v \in BOOLEAN : set_enabled(v) => is_enabled' = v]_vars

\* C16 witness: with autosave enabled, a calculation on a full History has
\* evicted a record and the file holds the new records.
C16_Witness ==
  /\ lastCmd = "calculate"
  /\ lastErr = "none"
  /\ is_enabled
  /\ Len(pre.items) = MaxHistory
  /\ items # pre.items
  /\ IsTableOf(file, items)
  /\ ~IsTableOf(file, pre.items)

\* the record sequences the snapshots of a stack show, bottom first
States(stack) == [i \in 1..Len(stack) |-> stack[i].state]

\* the snapshots of stack s that are still held in stack t keep their
\* contents
Held(s, t) ==
  \A i \in 1..Len(s) : i <= Len(t) => t[i].state = s[i].state

\* C17: a snapshot never changes after creation: a snapshot pushed on the
\* undo or redo stack equals the record sequence History had when it was
\* taken, and every snapshot that stays on a stack keeps its contents
\* whatever add, clear, restore or load then do to History.
C17_SnapshotsNeverChange ==
  [][/\ Held(undo, undo')
     /\ Held(redo, redo')
     /\ Len(undo') > Len(undo) => States(undo') = Append(States(undo), items)
     /\ Len(redo') > Len(redo) => States(redo') = Append(States(redo), items)]_vars

\* C17 witness: after an undo, History has been restored from a snapshot
\* while a snapshot of another state is held on each stack.
C17_Witness ==
  /\ lastCmd = "undo"
  /\ lastErr = "none"
  /\ undo # <<>>
  /\ redo # <<>>
  /\ Last(undo).state # items
  /\ Last(redo).state # items
  /\ Last(redo).state # <<>>
  /\ items # <<>>

\* a finished call of parse_two_numbers
Parsed == call.name = "parse_two_numbers" /\ call.result # Pending

\* the token is the text of a number of magnitude at most m
WithinLimit(tok, m) ==
  /\ float(tok).err = "none"
  /\ float(tok).val.cls = "finite"
  /\ ~Greater(Dec(-m), float(tok).val)
  /\ ~Greater(float(tok).val, Dec(m))

\* C19: with a configuration that loads, parse_two_numbers accepts a token
\* list exactly when it has exactly two tokens, both parse as numbers and
\* each has magnitude at most the configured maximum; it then returns the
\* two numbers in order, and in every other case it fails with a
\* ValidationError.
C19_AcceptsExactlyBoundedPairs ==
  (Parsed /\ call.args[2] = "ok") =>
    LET tokens == call.args[1]
    IN IF /\ Len(tokens) = 2
          /\ WithinLimit(tokens[1], max_input_value)
          /\ WithinLimit(tokens[2], max_input_value)
         THEN /\ call.result.err = "none"
              /\ call.result.a = float(tokens[1]).val
              /\ call.result.b = float(tokens[2]).val
         ELSE call.result.err = "ValidationError"

\* C18: in the REPL no command error ends the session: after a command that
\* fails with any exception other than end of input or interrupt the error
\* is printed and the loop is still running; the loop ends only on
\* exit/quit, end of input or interrupt.
C18_ErrorsDoNotEndSession ==
  /\ [][(repl = "running" /\ lastErr' \notin {"none", "EOFError", "KeyboardInterrupt"})
          => (repl' = "running" /\ out'.kind \in {"Error", "Unexpected error"})]_vars
  /\ [][(repl = "running" /\ repl' # "running")
          => (lastCmd' \in {"exit", "input"}
                /\ lastErr' \in {"none", "EOFError", "KeyboardInterrupt"})]_vars
  /\ [](repl = "running" => ENABLED line_help)

\* C18 witness: the REPL is running after undo raised the Caretaker's
\* nothing-to-undo IndexError, which main reported as unexpected.
C18_Witness ==
  /\ repl = "running"
  /\ lastCmd = "undo"
  /\ lastErr = "IndexError"
  /\ out.kind = "Unexpected error"

\* C20: in a REPL started with a registered command, help lists the command
\* and its aliases, and a line starting with its name or one of its aliases
\* runs its handler.
C20_RegisteredCommandsServed ==
  /\ (repl # "none" /\ lastCmd = "help") =>
       \A name \in all_specs(registry) :
         {name} \cup Range(aliases_for(registry, name)) \subseteq out.names
  /\ (repl # "none" /\ resolve(registry, lastCmd) # "") =>
       (lastErr = "none" /\ out.kind = "handler")

\* C21: a successful calculate(op, a, b) that returns r appends exactly one
\* record, the last item of History, whose operation, a and b are the
\* arguments and whose result is r, the value rounded to the precision in
\* force; the records already in History keep their fields (the oldest is
\* dropped at capacity), and a change of precision changes no record.
C21_RecordMatchesResult ==
  /\ [][\A c \in PrecisionCalcInputs :
          (calculate(c[1], c[2], c[3], "ok") /\ lastErr' = "none") =>
            /\ items' # <<>>
            /\ Last(items').operation = Str(c[1])
            /\ Last(items').a = c[2]
            /\ Last(items').b = c[3]
            /\ Last(items').result = lastRet'
            /\ lastRet' = round(execute(c[1], c[2], c[3]), precision).val
            /\ Front(items') = IF Len(items) < MaxHistory THEN items
                               ELSE Tail(items)]_vars
  /\ [][lastCmd' \in {"set_precision", "get_precision"} => items' = items]_vars

\* C21 witness: 1 / 4 was recorded as 0.25, the precision was then set to 0
\* and 1 / 4 recorded again as 0, the first record keeping 0.25.
C21_Witness ==
  /\ lastCmd = "calculate"
  /\ lastErr = "none"
  /\ precision = 0
  /\ Len(items) = 2
  /\ items[1].operation = "divide"
  /\ items[1].result = D(1, 4)
  /\ items[2].operation = "divide"
  /\ items[2].result = D(0, 1)
  /\ lastRet = Ret(0)

RECURSIVE Reverse(_)
Reverse(s) == IF s = <<>> THEN <<>> ELSE Append(Reverse(Tail(s)), Head(s))

\* the states History went through, oldest first: the undo stack, the
\* current state, then the redo stack from its top down
Timeline == States(undo) \o <<items>> \o Reverse(States(redo))

\* C22: undo and redo are multi-level and last-in-first-out.  A successful
\* mutating command appends the state it produces to the timeline H0..Hk
\* of History states, cutting the redone part; each undo steps one state
\* back on that timeline and each redo one state forward, the timeline
\* itself staying as it is; an undo at H0 (empty undo stack) fails and
\* leaves History as it is.
C22_UndoRedoAreLifo ==
  [][/\ (lastCmd' \in Mutating /\ lastErr' = "none") =>
          (States(undo') = Append(States(undo), items) /\ redo' = <<>>)
     /\ (lastCmd' = "undo" /\ undo # <<>>) =>
          /\ lastErr' = "none"
          /\ Timeline' = Timeline
          /\ Len(undo') = Len(undo) - 1
          /\ items' = Timeline[Len(undo)]
     /\ (lastCmd' = "undo" /\ undo = <<>>) =>
          (lastErr' # "none" /\ items' = items /\ Timeline' = Timeline)
     /\ (lastCmd' = "redo" /\ redo # <<>>) =>
          /\ lastErr' = "none"
          /\ Timeline' = Timeline
          /\ Len(undo') = Len(undo) + 1
          /\ items' = Timeline[Len(undo) + 2]]_vars

\* C22 witness: after two mutating commands and two undos a third undo has
\* failed, with two different states waiting on the redo stack.
C22_Witness ==
  /\ lastCmd = "undo"
  /\ lastErr = "IndexError"
  /\ undo = <<>>
  /\ Len(redo) = MaxUndo
  /\ redo[1].state # redo[2].state
  /\ items = <<>>

\* C23: a facade command that fails changes no undo/redo state: after a
\* calculate or a load that ended with an error the undo stack and the redo
\* stack are as they were before the call.
C23_FailureKeepsStacks ==
  [][(lastCmd' \in {"calculate", "load"} /\ lastErr' # "none") =>
       (undo' = undo /\ redo' = redo)]_vars

\* C24: a failing command leaves the History records unchanged: after a
\* calculate that failed with an OperationError or a load that failed with
\* a HistoryError, History holds exactly the records it held before.
C24_FailureKeepsRecords ==
  [][/\ (lastCmd' = "calculate" /\ lastErr' = "OperationError") => items' = items
     /\ (lastCmd' = "load" /\ lastErr' = "HistoryError") => items' = items]_vars

\* C24 witness: a load has failed with a HistoryError on a History that
\* holds records, and the records are those held before.
C24_Witness ==
  /\ lastCmd = "load"
  /\ lastErr = "HistoryError"
  /\ items # <<>>
  /\ items = pre.items

\* C25: calculate appends a record only if it returns a result: after a
\* calculate that ended with an error of any kind, the HistoryError of the
\* autosave write included, History holds no record for that call.
C25_ErrorMeansNoRecord ==
  [][(lastCmd' = "calculate" /\ lastErr' # "none") => items' = items]_vars

\* C26: save, successful or failing, leaves the History records, the undo
\* stack and the redo stack unchanged; clear, undo and redo leave the
\* persisted file unchanged, also when autosave is enabled.
C26_SaveAndStacksFrames ==
  [][/\ lastCmd' = "save" => (items' = items /\ undo' = undo /\ redo' = redo)
     /\ lastCmd' \in {"clear", "undo", "redo"} => file' = file]_vars

\* C26 witness: with autosave enabled History has been cleared while the
\* file still holds the records History had before.
C26_Witness ==
  /\ lastCmd = "clear"
  /\ is_enabled
  /\ items = <<>>
  /\ pre.items # <<>>
  /\ IsTableOf(file, pre.items)

\* C27: the REPL line "history N" with a non-negative integer N displays
\* exactly the last min(N, length) records of History, oldest first, and
\* "history" alone displays all records; when no record is to be displayed
\* it prints that the history is empty.
C27_HistoryShowsLastN ==
  [][\A args \in HistoryArgs :
       (line_history(args)
          /\ (args = <<>> \/ (isdigit(args[1]) /\ int(args[1]).err = "none"))) =>
         LET n == IF args = <<>> \/ int(args[1]).val > Len(items)
                    THEN Len(items) ELSE int(args[1]).val
         IN /\ out'.recs = SubSeq(items, Len(items) - n + 1, Len(items))
            /\ (out'.kind = "(history is empty)") = (n = 0)]_vars

\* C28: Caretaker.clear() empties both the undo stack and the redo stack
\* and leaves History untouched; from then on, until a mutating command
\* saves a snapshot, the stacks stay empty and undo and redo both fail,
\* leaving History as it is.
C28_CaretakerClearEmptiesBoth ==
  /\ [][lastCmd' = "caretaker_clear" =>
          (undo' = <<>> /\ redo' = <<>> /\ items' = items)]_vars
  /\ [][(undo = <<>> /\ redo = <<>> /\ lastCmd' \notin Mutating) =>
          /\ undo' = <<>>
          /\ redo' = <<>>
          /\ lastCmd' \in {"undo", "redo"} =>
               (lastErr' = "IndexError" /\ items' = items)]_vars

\* C28 witness: the Caretaker has been cleared while it held snapshots on
\* both stacks and History held records.
C28_Witness ==
  /\ lastCmd = "caretaker_clear"
  /\ pre.undo # <<>>
  /\ pre.redo # <<>>
  /\ undo = <<>>
  /\ redo = <<>>
  /\ items # <<>>

====
